---------------------------- MODULE Spec2Model ----------------------------
(***************************************************************************)
(* A model of the date normaliser, the CSV import and export, the table    *)
(* view and the monthly archive of kakeibo.py.                             *)
(*                                                                         *)
(* Text is a sequence of one-character tokens.  The kanji of the date      *)
(* forms are written as the ASCII tokens REI WA (the era name Reiwa),      *)
(* NEN (year), GATSU (month) and NICHI (day); each stands for exactly one  *)
(* character of the Python string.  The Python values None and float NaN   *)
(* are the one-token sequences NoneVal and NaNVal, whose token is not a    *)
(* character, so that they differ from every text.                         *)
(***************************************************************************)
EXTENDS Integers, Sequences, FiniteSets, TLC

VARIABLES
    date_str,       \* the argument of convert_date_format under study
    phase,          \* "input", "converted", "reconverted" / "loaded", "imported" /
                    \* "open", "exported", "reimported"
    conv,           \* outcome of convert_date_format(date_str)
    conv2,          \* outcome of convert_date_format applied to conv.ret
    kakeibo,        \* table kakeibo: sequence of rows [id, date, category, subject, amount]
    next_id,        \* the AUTOINCREMENT counter of table kakeibo
    csv,            \* the CSV file handed to import_from_csv: [columns, rows]
    df,             \* the DataFrame of the import after validate_csv_format
    report,         \* what import_from_csv produced: return value, counts, details
    table_widget,   \* the texts of the cells of the QTableWidget, row by row
    kakeibo_archive,\* table kakeibo_archive: [exists, rows, next_id]
    exported,       \* the file export_to_csv wrote: [columns, rows]
    reimported,     \* table kakeibo of the empty database the export is imported into
    edits,          \* the number of cells the user has edited in the table
    returned,       \* what the last call of an archive function returned
    backups         \* the months create_monthly_backup has written a file for

vars == <<date_str, phase, conv, conv2, kakeibo, next_id, csv, df, report,
          table_widget, kakeibo_archive, exported, reimported, edits,
          returned, backups>>

-----------------------------------------------------------------------------
(* Bounds of the model *)

\* at most this many blanks are put before and after a date text
MaxPad == 1
\* the operations on the store hand out ids up to this one
MaxId == 2
\* the user edits at most this many cells of the table
MaxEdits == 1
\* the enumerated CSV batches have at most this many rows
MaxRows == 2

-----------------------------------------------------------------------------
(* Python values and string primitives *)

NoneVal == <<"<None>">>
NaNVal == <<"<NaN>">>
\* marks an exception that leaves the function
Raised == <<"<raised>">>

Digits == <<"0", "1", "2", "3", "4", "5", "6", "7", "8", "9">>
DigitSet == {Digits[i] : i \in 1..10}
Blank == " "
Chars == DigitSet \cup {"-", "/", "R", "REI", "WA", "NEN", "GATSU", "NICHI", Blank, "x", "."}

IsDigit(c) == c \in DigitSet
DigitVal(c) == (CHOOSE i \in 1..10 : Digits[i] = c) - 1

\* int(text) for a text of decimal digits
RECURSIVE int(_)
int(s) ==
    IF s = <<>> THEN 0
    ELSE 10 * int(SubSeq(s, 1, Len(s) - 1)) + DigitVal(s[Len(s)])

\* the decimal digits of a natural number, no padding
RECURSIVE DecDigits(_)
DecDigits(n) ==
    IF n < 10 THEN <<Digits[n + 1]>>
    ELSE DecDigits(n \div 10) \o <<Digits[(n % 10) + 1]>>

\* format spec 0{w}d : zero-padded to at least w digits
RECURSIVE ZeroPad(_, _)
ZeroPad(s, w) == IF Len(s) >= w THEN s ELSE ZeroPad(<<"0">> \o s, w)

fmt_d(n, w) == ZeroPad(DecDigits(n), w)

\* str.strip()
RECURSIVE lstrip(_)
lstrip(s) == IF s # <<>> /\ s[1] = Blank THEN lstrip(Tail(s)) ELSE s
RECURSIVE rstrip(_)
rstrip(s) ==
    IF s # <<>> /\ s[Len(s)] = Blank THEN rstrip(SubSeq(s, 1, Len(s) - 1)) ELSE s
strip(s) == rstrip(lstrip(s))

\* sub in s
Contains(s, sub) ==
    \E i \in 1..(Len(s) - Len(sub) + 1) : SubSeq(s, i, i + Len(sub) - 1) = sub

\* s.startswith(pre)
StartsWith(s, pre) == Len(s) >= Len(pre) /\ SubSeq(s, 1, Len(pre)) = pre

\* number of consecutive digits of s from position pos on
RECURSIVE DigitRun(_, _)
DigitRun(s, pos) ==
    IF pos <= Len(s) /\ IsDigit(s[pos]) THEN 1 + DigitRun(s, pos + 1) ELSE 0


-----------------------------------------------------------------------------
(* Regular expressions of convert_date_format *)

Min(a, b) == IF a <= b THEN a ELSE b

\* A group (\d{lo,hi}) tried at position pos and followed in the pattern by
\* the literal nxt (<<>> when the group ends the pattern): the number of
\* digits the group takes in a successful match, 0 when there is none.  The
\* literals are not digits, so before a literal the group must take the
\* whole run of digits; at the end of the pattern it takes greedily.
GroupLen(s, pos, lo, hi, nxt) ==
    LET run == DigitRun(s, pos) IN
    IF nxt = <<>>
    THEN IF run >= lo THEN Min(run, hi) ELSE 0
    ELSE IF run >= lo /\ run <= hi /\ StartsWith(SubSeq(s, pos + run, Len(s)), nxt)
         THEN run
         ELSE 0

\* re.match of  pre(\d{ylo,yhi})sep1(\d{1,2})sep2(\d{1,2})tail  at the start
\* of s: the three groups, or <<>> when there is no match
re_match_ymd(pre, ylo, yhi, sep1, sep2, tail, s) ==
    LET p0 == Len(pre) + 1
        n1 == GroupLen(s, p0, ylo, yhi, sep1)
        p1 == p0 + n1 + Len(sep1)
        n2 == GroupLen(s, p1, 1, 2, sep2)
        p2 == p1 + n2 + Len(sep2)
        n3 == GroupLen(s, p2, 1, 2, tail)
    IN  IF StartsWith(s, pre) /\ n1 > 0 /\ n2 > 0 /\ n3 > 0
        THEN <<SubSeq(s, p0, p0 + n1 - 1),
               SubSeq(s, p1, p1 + n2 - 1),
               SubSeq(s, p2, p2 + n3 - 1)>>
        ELSE <<>>

\* a variant that also insists on a month 01..12 and a day 01..31
re_match_canonical_calendar(s) ==
    /\ Len(s) = 10
    /\ \A i \in {1, 2, 3, 4, 6, 7, 9, 10} : IsDigit(s[i])
    /\ s[5] = "-"
    /\ s[8] = "-"
    /\ int(SubSeq(s, 6, 7)) \in 1..12
    /\ int(SubSeq(s, 9, 10)) \in 1..31

\* re.match(r'^\d{4}-\d{2}-\d{2}$', s)
re_match_canonical(s) ==
    /\ Len(s) = 10
    /\ \A i \in {1, 2, 3, 4, 6, 7, 9, 10} : IsDigit(s[i])
    /\ s[5] = "-"
    /\ s[8] = "-"

-----------------------------------------------------------------------------
(* convert_date_format *)

\* year = int(match.group(1)) + 2018
ReiwaOffset == 2018

\* The four pattern branches of the try block, in the order of the code.
BranchCount == 4
BranchName(i) ==
    CASE i = 1 -> "reiwa_long"
      [] i = 2 -> "reiwa_short"
      [] i = 3 -> "kanji"
      [] i = 4 -> "slash"

\* the if-condition that guards branch i
BranchGuard(i, s) ==
    CASE i = 1 -> Contains(s, <<"REI", "WA">>)
      [] i = 2 -> StartsWith(s, <<"R">>)
      [] i = 3 -> Contains(s, <<"NEN">>) /\ Contains(s, <<"GATSU">>) /\ Contains(s, <<"NICHI">>)
      [] i = 4 -> Contains(s, <<"/">>)

\* the re.match of branch i
BranchMatch(i, s) ==
    CASE i = 1 -> re_match_ymd(<<"REI", "WA">>, 1, 2, <<"NEN">>, <<"GATSU">>, <<"NICHI">>, s)
      [] i = 2 -> re_match_ymd(<<"R">>, 1, 2, <<"/">>, <<"/">>, <<>>, s)
      [] i = 3 -> re_match_ymd(<<>>, 4, 4, <<"NEN">>, <<"GATSU">>, <<"NICHI">>, s)
      [] i = 4 -> re_match_ymd(<<>>, 4, 4, <<"/">>, <<"/">>, <<>>, s)

\* a variant in which only the long form applies the era offset
BranchYearOffset_long_only(i) == IF i = 1 THEN ReiwaOffset ELSE 0

\* what branch i adds to the year group
BranchYearOffset(i) == IF i \in {1, 2} THEN ReiwaOffset ELSE 0

\* a variant that writes slashes between the fields
format_ymd_slashes(year, month, day) ==
    fmt_d(year, 4) \o <<"/">> \o fmt_d(month, 2) \o <<"/">> \o fmt_d(day, 2)

\* a variant that writes the day before the month
format_ymd_day_first(year, month, day) ==
    fmt_d(year, 4) \o <<"-">> \o fmt_d(day, 2) \o <<"-">> \o fmt_d(month, 2)

\* f"{year:04d}-{month:02d}-{day:02d}"
format_ymd(year, month, day) ==
    fmt_d(year, 4) \o <<"-">> \o fmt_d(month, 2) \o <<"-">> \o fmt_d(day, 2)

\* a variant that does not pad month and day
BranchConvert_unpadded(i, m) ==
    fmt_d(int(m[1]) + BranchYearOffset(i), 4) \o <<"-">> \o DecDigits(int(m[2]))
        \o <<"-">> \o DecDigits(int(m[3]))

\* the body of a branch whose regular expression matched with groups m
BranchConvert(i, m) ==
    format_ymd(int(m[1]) + BranchYearOffset(i), int(m[2]), int(m[3]))

\* Outcomes of dateutil's parser.parse(s, dayfirst=False, yearfirst=True):
\* it raises, or it returns a datetime of which strftime('%Y-%m-%d') uses
\* year, month and day.  The library is not part of the repository: every
\* outcome it could produce is allowed for a text that holds a digit; a text
\* without a digit holds no date token (the alphabet has no month or weekday
\* name) and makes the parser raise.
ParserRaises == [ok |-> FALSE, y |-> 0, m |-> 0, d |-> 0]
ParserDates ==
    { [ok |-> TRUE, y |-> 2024, m |-> 1, d |-> 5],
      [ok |-> TRUE, y |-> 2019, m |-> 12, d |-> 31] }
parser_parse(s) ==
    IF \E i \in 1..Len(s) : IsDigit(s[i])
    THEN ParserDates \cup {ParserRaises}
    ELSE {ParserRaises}

\* a variant that asks the generic parser first and uses the patterns only
\* when it fails
RECURSIVE try_block_parser_first(_, _, _, _)
try_block_parser_first(i, s, po, tried) ==
    IF i = 1 /\ po.ok
    THEN [kind |-> "return", ret |-> format_ymd(po.y, po.m, po.d),
          via |-> "fallback", tried |-> Append(tried, "parser")]
    ELSE IF i > BranchCount
    THEN [kind |-> "raise", ret |-> Raised,
          via |-> "fallback", tried |-> Append(tried, "parser")]
    ELSE IF BranchGuard(i, s) /\ BranchMatch(i, s) # <<>>
    THEN [kind |-> "return", ret |-> BranchConvert(i, BranchMatch(i, s)),
          via |-> BranchName(i), tried |-> Append(tried, BranchName(i))]
    ELSE try_block_parser_first(i + 1, s, po, tried)

\* The try block from branch i on; tried lists the re.match calls and the
\* parser call made so far.  po is the outcome of parser.parse should the
\* fallback be reached.  kind is "return" or "raise".
RECURSIVE try_block(_, _, _, _)
try_block(i, s, po, tried) ==
    IF i > BranchCount
    THEN IF po.ok
         THEN [kind |-> "return", ret |-> format_ymd(po.y, po.m, po.d),
               via |-> "fallback", tried |-> Append(tried, "parser")]
         ELSE [kind |-> "raise", ret |-> Raised,
               via |-> "fallback", tried |-> Append(tried, "parser")]
    ELSE IF BranchGuard(i, s)
         THEN IF BranchMatch(i, s) # <<>>
              THEN [kind |-> "return", ret |-> BranchConvert(i, BranchMatch(i, s)),
                    via |-> BranchName(i), tried |-> Append(tried, BranchName(i))]
              ELSE try_block(i + 1, s, po, Append(tried, BranchName(i)))
         ELSE try_block(i + 1, s, po, tried)

\* a variant without the except clause: the exception leaves the function
except_handler_missing(r) == [ret |-> r.ret, via |-> r.via, tried |-> r.tried]

\* except Exception: log a warning, return None
except_handler(r) ==
    IF r.kind = "raise"
    THEN [ret |-> NoneVal, via |-> "except", tried |-> r.tried]
    ELSE [ret |-> r.ret, via |-> r.via, tried |-> r.tried]

\* if not date_str or pd.isna(date_str)
initial_guard(d) == d = NoneVal \/ d = <<>> \/ d = NaNVal

\* convert_date_format(d) when parser.parse, if called, behaves as po
convert_date_format(d, po) ==
    IF initial_guard(d)
    THEN [ret |-> NoneVal, via |-> "guard", tried |-> <<>>]
    ELSE LET s == strip(d) IN
         IF re_match_canonical(s)
         THEN [ret |-> s, via |-> "canonical", tried |-> <<"canonical">>]
         ELSE except_handler(try_block(1, s, po, <<"canonical">>))

\* the outcomes convert_date_format(d) can have
convert_outcomes(d) ==
    { convert_date_format(d, po) : po \in parser_parse(IF initial_guard(d) THEN <<>> ELSE strip(d)) }

-----------------------------------------------------------------------------
(* Cells of a pandas DataFrame, and the conversions Python applies to them *)

\* A cell is a missing value (NaN), an integer of an int64 column, a number
\* of a float64 column, or a text of an object column.  Amounts are whole
\* numbers in this model; n is the number, s the text.
NaNCell == [t |-> "nan", n |-> 0, s |-> <<>>]
IntCell(v) == [t |-> "int", n |-> v, s |-> <<>>]
FloatCell(v) == [t |-> "float", n |-> v, s |-> <<>>]
StrCell(x) == [t |-> "str", n |-> 0, s |-> x]

\* an optional minus sign and one or more digits
IsIntText(s) ==
    LET body == IF s # <<>> /\ s[1] = "-" THEN Tail(s) ELSE s IN
    body # <<>> /\ \A i \in 1..Len(body) : IsDigit(body[i])
\* an integer text followed by ".0"
IsFloatText(s) ==
    /\ Len(s) >= 3
    /\ SubSeq(s, Len(s) - 1, Len(s)) = <<".", "0">>
    /\ IsIntText(SubSeq(s, 1, Len(s) - 2))
\* the texts float() and pandas.to_numeric read as a number
IsNumericText(s) == IsIntText(s) \/ IsFloatText(s)
NumericValue(s) ==
    LET whole == IF IsFloatText(s) THEN SubSeq(s, 1, Len(s) - 2) ELSE s IN
    IF whole[1] = "-" THEN 0 - int(Tail(whole)) ELSE int(whole)

CellIsNumber(c) == c.t \in {"int", "float"} \/ (c.t = "str" /\ IsNumericText(c.s))
CellIsInt(c) == c.t = "int" \/ (c.t = "str" /\ IsIntText(c.s))
CellNumber(c) == IF c.t = "str" THEN NumericValue(c.s) ELSE c.n

\* pd.to_numeric(column, errors='coerce'): what is no number becomes NaN;
\* the column is int64 when every cell is an integer, float64 otherwise
to_numeric(col) ==
    LET all_int == \A i \in 1..Len(col) : CellIsInt(col[i]) IN
    [i \in 1..Len(col) |->
        IF CellIsNumber(col[i])
        THEN IF all_int THEN IntCell(CellNumber(col[i])) ELSE FloatCell(CellNumber(col[i]))
        ELSE NaNCell]

\* str(cell)
py_str(c) ==
    LET digits(v) == IF v < 0 THEN <<"-">> \o DecDigits(0 - v) ELSE DecDigits(v) IN
    CASE c.t = "str" -> c.s
      [] c.t = "nan" -> <<"n", "a", "n">>
      [] c.t = "int" -> digits(c.n)
      [] c.t = "float" -> digits(c.n) \o <<".", "0">>

\* float(cell): ok is FALSE for the ValueError of a text that is no number;
\* float(NaN) and float('nan') are NaN and raise nothing
py_float(c) ==
    CASE c.t = "nan" -> [ok |-> TRUE, val |-> NaNCell]
      [] c.t \in {"int", "float"} -> [ok |-> TRUE, val |-> FloatCell(c.n)]
      [] c.t = "str" ->
            IF IsNumericText(c.s)
            THEN [ok |-> TRUE, val |-> FloatCell(NumericValue(c.s))]
            ELSE IF c.s = <<"n", "a", "n">>
            THEN [ok |-> TRUE, val |-> NaNCell]
            ELSE [ok |-> FALSE, val |-> NaNCell]

\* the value a cell of the date column hands to convert_date_format: a text,
\* NaN, or a number, which is falsy when 0 and is turned into text by str()
date_argument(c) ==
    CASE c.t = "str" -> c.s
      [] c.t = "nan" -> NaNVal
      [] OTHER -> IF c.n = 0 THEN <<>> ELSE py_str(c)

-----------------------------------------------------------------------------
(* CSV import *)

\* a variant whose list of required columns forgets the amount
required_columns_without_amount == {"date", "category", "subject"}

\* required_columns of validate_csv_format
required_columns == {"date", "category", "subject", "amount"}

\* pd.read_csv: an empty field is NaN; a column whose other fields are all
\* numbers is a numeric column, any other column holds the texts
read_csv_column(texts) ==
    LET raw == [i \in 1..Len(texts) |->
                   IF texts[i] = <<>> THEN NaNCell ELSE StrCell(texts[i])]
    IN  IF \A i \in 1..Len(raw) : raw[i].t = "nan" \/ CellIsNumber(raw[i])
        THEN to_numeric(raw)
        ELSE raw

read_csv(file) ==
    [columns |-> file.columns,
     rows |-> [i \in 1..Len(file.rows) |->
                 [c \in file.columns |->
                    read_csv_column([j \in 1..Len(file.rows) |-> file.rows[j][c]])[i]]]]

\* the outcome of parser.parse that matters for date cell c: the parser is
\* consulted only when convert_date_format reaches its fallback
parser_outcomes_for(c) ==
    LET d == date_argument(c) IN
    IF "parser" \in { convert_date_format(d, ParserRaises).tried[k] :
                        k \in 1..Len(convert_date_format(d, ParserRaises).tried) }
    THEN parser_parse(strip(d))
    ELSE {ParserRaises}

\* validate_csv_format(df): the result dictionary, and df as the function
\* leaves it (the amount column is assigned in place).  pos[i] is the
\* outcome of parser.parse on the date of row i.
validate_csv_format(frame, pos) ==
    LET missing_columns == required_columns \ frame.columns
        n == Len(frame.rows)
        coerced == IF "amount" \in frame.columns
                   THEN to_numeric([i \in 1..n |-> frame.rows[i]["amount"]])
                   ELSE <<>>
        frame_after ==
            IF "amount" \in frame.columns
            THEN [columns |-> frame.columns,
                  rows |-> [i \in 1..n |->
                              [frame.rows[i] EXCEPT !["amount"] = coerced[i]]]]
            ELSE frame
        amount_warning ==
            IF "amount" \in frame.columns /\ \E i \in 1..n : coerced[i].t = "nan"
            THEN <<"amount_not_numeric">> ELSE <<>>
        date_warning ==
            IF /\ "date" \in frame.columns
               /\ \E i \in 1..n :
                     convert_date_format(date_argument(frame.rows[i]["date"]), pos[i]).ret = NoneVal
            THEN <<"invalid_dates">> ELSE <<>>
    IN  [valid |-> missing_columns = {},
         errors |-> IF missing_columns # {}
                    THEN <<[kind |-> "missing_columns", columns |-> missing_columns]>>
                    ELSE <<>>,
         warnings |-> amount_warning \o date_warning,
         df |-> frame_after]

\* INSERT INTO kakeibo (date, category, subject, amount): the columns are
\* NOT NULL and sqlite binds a NaN as NULL, so a NaN amount makes the
\* statement fail with an IntegrityError; the id is the AUTOINCREMENT value.
\* A stored amount is a cell: a float for a REAL, a text for a TEXT value.
sqlite_insert(table, nid, date, category, subject, amount) ==
    IF amount.t = "nan"
    THEN [ok |-> FALSE, table |-> table, next_id |-> nid]
    ELSE [ok |-> TRUE,
          table |-> Append(table, [id |-> nid, date |-> date, category |-> category,
                                   subject |-> subject, amount |-> amount]),
          next_id |-> nid + 1]

NotNullMessage == <<"NOT NULL constraint failed: kakeibo.amount">>
KeyErrorMessage(c) == <<"KeyError", c>>

\* a variant that numbers the rows as the DataFrame index does, from 0
ErrorDetail_index_from_zero(i, kind, value) == [row |-> i - 1, kind |-> kind, value |-> value]

\* one entry of error_details
ErrorDetail(i, kind, value) == [row |-> i, kind |-> kind, value |-> value]

\* the body of the for loop of import_from_csv for row i (idx = i - 1)
import_row(frame, pos, i, acc) ==
    LET row == frame.rows[i]
        has(c) == c \in frame.columns
        rejected(kind, value) ==
            [acc EXCEPT !.error_count = @ + 1,
                        !.error_details = Append(@, ErrorDetail(i, kind, value))]
    IN  IF ~has("date") THEN rejected("exception", KeyErrorMessage("date"))
        ELSE LET date == convert_date_format(date_argument(row["date"]), pos[i]).ret IN
        IF date = NoneVal THEN rejected("date", py_str(row["date"]))
        ELSE IF ~has("amount") THEN rejected("exception", KeyErrorMessage("amount"))
        ELSE LET amount == py_float(row["amount"]) IN
        IF ~amount.ok THEN rejected("amount", py_str(row["amount"]))
        ELSE IF ~has("category") THEN rejected("exception", KeyErrorMessage("category"))
        ELSE IF ~has("subject") THEN rejected("exception", KeyErrorMessage("subject"))
        ELSE LET ins == sqlite_insert(acc.table, acc.next_id, date,
                                      strip(py_str(row["category"])),
                                      strip(py_str(row["subject"])), amount.val)
             IN  IF ins.ok
                 THEN [acc EXCEPT !.table = ins.table, !.next_id = ins.next_id,
                                  !.success_count = @ + 1]
                 ELSE rejected("exception", NotNullMessage)

\* a variant that leaves the loop at the first rejected row
RECURSIVE import_rows_stop_at_error(_, _, _, _)
import_rows_stop_at_error(frame, pos, i, acc) ==
    IF i > Len(frame.rows) THEN acc
    ELSE CHOOSE result \in
            { IF after.error_count > acc.error_count THEN after
              ELSE import_rows_stop_at_error(frame, pos, i + 1, after) :
                after \in {import_row(frame, pos, i, acc)} } : TRUE

\* a variant that walks the rows from the last to the first
RECURSIVE import_rows_last_first(_, _, _, _)
import_rows_last_first(frame, pos, i, acc) ==
    IF i > Len(frame.rows) THEN acc
    ELSE CHOOSE result \in
            { import_row(frame, pos, i, after) :
                after \in {import_rows_last_first(frame, pos, i + 1, acc)} } : TRUE

\* The for loop from row i on.  (The state after row i is bound as the one
\* element of a set, so that it is computed once before the next row.)
RECURSIVE import_rows(_, _, _, _)
import_rows(frame, pos, i, acc) ==
    IF i > Len(frame.rows) THEN acc
    ELSE CHOOSE result \in
            { import_rows(frame, pos, i + 1, after) :
                after \in {import_row(frame, pos, i, acc)} } : TRUE

\* import_from_csv(file) on table kakeibo: the return value, the table and
\* its id counter afterwards, the DataFrame as validation left it, and the
\* counts and details shown to the user
import_from_csv(file, table, nid, pos) ==
    LET start == [table |-> table, next_id |-> nid, success_count |-> 0,
                  error_count |-> 0, error_details |-> <<>>]
        \* return False after the validation, before the loop
        rejected(validation_result) ==
            [ret |-> FALSE, table |-> table, next_id |-> nid,
             df |-> validation_result.df,
             success_count |-> 0, error_count |-> 0, error_details |-> <<>>,
             errors |-> validation_result.errors,
             warnings |-> validation_result.warnings]
        \* the loop has run, the transaction is committed, return True
        completed(validation_result, done) ==
            [ret |-> TRUE, table |-> done.table, next_id |-> done.next_id,
             df |-> validation_result.df,
             success_count |-> done.success_count,
             error_count |-> done.error_count,
             error_details |-> done.error_details,
             errors |-> validation_result.errors,
             warnings |-> validation_result.warnings]
    IN  CHOOSE result \in
          { IF ~validation_result.valid
            THEN rejected(validation_result)
            ELSE CHOOSE r \in { completed(validation_result, done) :
                                  done \in {import_rows(validation_result.df, pos, 1, start)} } : TRUE :
              validation_result \in { validate_csv_format(frame, pos) : frame \in {read_csv(file)} } } : TRUE

-----------------------------------------------------------------------------
(* The form, the table view and the monthly archive *)

\* load_data: every cell of SELECT * FROM kakeibo as the text str() gives
load_data(table) ==
    [k \in 1..Len(table) |->
        << DecDigits(table[k].id), table[k].date, table[k].category,
           table[k].subject, py_str(table[k].amount) >>]

\* validate_input(date_str, amount_str): the date converts and
\* float(amount_str) raises no ValueError
validate_input(d, amount_str, po) ==
    IF convert_date_format(d, po).ret = NoneVal
    THEN FALSE
    ELSE py_float(StrCell(amount_str)).ok

\* insert_record(date, category, subject, amount)
insert_record(table, nid, date, category, subject, amount) ==
    sqlite_insert(table, nid, date, category, subject, amount)

\* a variant that stores the date as it was typed
save_record_typed_date(form, table, nid, po) ==
    LET converted_date == convert_date_format(form.date, po).ret IN
    IF converted_date = NoneVal
    THEN [ok |-> FALSE, table |-> table, next_id |-> nid]
    ELSE IF ~validate_input(converted_date, form.amount_str, po)
    THEN [ok |-> FALSE, table |-> table, next_id |-> nid]
    ELSE insert_record(table, nid, form.date, form.category, form.subject,
                       py_float(StrCell(form.amount_str)).val)

\* save_record up to the insert: the texts of the form are form.date,
\* form.category, form.subject and form.amount_str
save_record(form, table, nid, po) ==
    LET converted_date == convert_date_format(form.date, po).ret IN
    IF converted_date = NoneVal
    THEN [ok |-> FALSE, table |-> table, next_id |-> nid]
    ELSE IF ~validate_input(converted_date, form.amount_str, po)
    THEN [ok |-> FALSE, table |-> table, next_id |-> nid]
    ELSE insert_record(table, nid, converted_date, form.category, form.subject,
                       py_float(StrCell(form.amount_str)).val)

\* column_names of update_record; the columns of the view are 1..5 here
column_names == <<"id", "date", "category", "subject", "amount">>

\* the value sqlite stores for a text bound to a column: a REAL column turns
\* a text that is a number into the number and keeps any other text
sqlite_store(column_name, text) ==
    IF column_name = "amount"
    THEN IF IsNumericText(text) THEN FloatCell(NumericValue(text)) ELSE StrCell(text)
    ELSE text

\* WHERE id = ? with a text parameter: the text is compared as a number
id_matches(row, record_id) ==
    IsNumericText(record_id) /\ NumericValue(record_id) = row.id

\* UPDATE kakeibo SET column_name = ? WHERE id = ?, committed.  For column
\* id the new value is the record_id itself (the edited cell is the cell the
\* id is read from), so the row keeps its id.
sqlite_update(table, column_name, new_value, record_id) ==
    [k \in 1..Len(table) |->
        IF id_matches(table[k], record_id) /\ column_name # "id"
        THEN [table[k] EXCEPT ![column_name] = sqlite_store(column_name, new_value)]
        ELSE table[k]]

\* update_record(item) after the user has put new_value into the cell at
\* (row, column) of the view: the table and the view afterwards
update_record(view, table, row, column, new_value, po) ==
    LET edited == [view EXCEPT ![row][column] = new_value]
        record_id == edited[row][1]
        column_name == column_names[column]
        updated == sqlite_update(table, column_name, new_value, record_id)
    IN  IF column_name = "amount" /\ ~validate_input(edited[row][2], new_value, po)
        THEN [table |-> updated, view |-> load_data(updated)]
        ELSE [table |-> updated, view |-> edited]

\* substr(date, 1, 7)
substr_1_7(text) == SubSeq(text, 1, Min(7, Len(text)))
InMonth(rows, month) == SelectSeq(rows, LAMBDA r : substr_1_7(r.date) = month)
NotInMonth(rows, month) == SelectSeq(rows, LAMBDA r : substr_1_7(r.date) # month)

\* the statement of an archive function at which sqlite raises an error
\* (a locked or unwritable database file), "none" when every statement
\* succeeds
SqliteFaults == {"none", "connect", "insert", "delete"}

\* a variant that numbers original_id like the archive's own id
archive_rows_own_id(moved, first_id) ==
    [k \in 1..Len(moved) |->
        [id |-> first_id + k - 1,
         original_id |-> first_id + k - 1,
         date |-> moved[k].date,
         category |-> moved[k].category,
         subject |-> moved[k].subject,
         amount |-> moved[k].amount]]

\* INSERT INTO kakeibo_archive (original_id, date, category, subject, amount,
\* archived_date) SELECT id, date, category, subject, amount, ? FROM kakeibo:
\* the rows get the next ids of table kakeibo_archive
archive_rows(moved, first_id) ==
    [k \in 1..Len(moved) |->
        [id |-> first_id + k - 1,
         original_id |-> moved[k].id,
         date |-> moved[k].date,
         category |-> moved[k].category,
         subject |-> moved[k].subject,
         amount |-> moved[k].amount]]

\* a variant that commits the copy before it deletes
archive_monthly_data_copy_committed(month, table, archive, fault) ==
    LET moved == InMonth(table, month)
        created == [archive EXCEPT !.exists = TRUE]
        copied == [exists |-> TRUE,
                   rows |-> archive.rows \o archive_rows(moved, archive.next_id),
                   next_id |-> archive.next_id + Len(moved)]
    IN  IF fault = "connect"
        THEN [ret |-> FALSE, table |-> table, archive |-> archive]
        ELSE IF fault = "insert"
        THEN [ret |-> FALSE, table |-> table, archive |-> created]
        ELSE IF fault = "delete"
        THEN [ret |-> FALSE, table |-> table, archive |-> copied]
        ELSE [ret |-> TRUE, table |-> NotInMonth(table, month), archive |-> copied]

\* archive_monthly_data(month): the archive table is created when missing
\* (CREATE TABLE runs outside a transaction and stays), the rows of the
\* month are copied with their id as original_id and deleted from kakeibo,
\* and both are committed by the one commit; an error before it is caught,
\* the connection is closed without a commit and False is returned
archive_monthly_data(month, table, archive, fault) ==
    LET moved == InMonth(table, month)
        created == [archive EXCEPT !.exists = TRUE]
    IN  IF fault = "connect"
        THEN [ret |-> FALSE, table |-> table, archive |-> archive]
        ELSE IF fault \in {"insert", "delete"}
        THEN [ret |-> FALSE, table |-> table, archive |-> created]
        ELSE [ret |-> TRUE,
              table |-> NotInMonth(table, month),
              archive |->
                [exists |-> TRUE,
                 rows |-> archive.rows \o archive_rows(moved, archive.next_id),
                 next_id |-> archive.next_id + Len(moved)]]

\* a variant that copies back all rows of the month but the last
restore_rows_drop_last(moved, nid) ==
    [k \in 1..(Len(moved) - 1) |->
        [id |-> nid + k - 1, date |-> moved[k].date,
         category |-> moved[k].category, subject |-> moved[k].subject,
         amount |-> moved[k].amount]]

\* INSERT INTO kakeibo (date, category, subject, amount) SELECT ... FROM
\* kakeibo_archive: the rows get the next ids of table kakeibo
restore_rows(moved, nid) ==
    [k \in 1..Len(moved) |->
        [id |-> nid + k - 1, date |-> moved[k].date,
         category |-> moved[k].category, subject |-> moved[k].subject,
         amount |-> moved[k].amount]]

\* restore_monthly_data(month): the rows of the month are copied back and
\* deleted from the archive, committed by the one commit; it fails, changing
\* nothing, while there is no archive table or when sqlite raises an error
restore_monthly_data(month, table, nid, archive, fault) ==
    IF ~archive.exists \/ fault # "none"
    THEN [ret |-> FALSE, table |-> table, next_id |-> nid, archive |-> archive]
    ELSE LET moved == InMonth(archive.rows, month) IN
         [ret |-> TRUE,
          table |-> table \o restore_rows(moved, nid),
          next_id |-> nid + Len(moved),
          archive |-> [archive EXCEPT !.rows = NotInMonth(archive.rows, month)]]

\* the characters of the texts in the order of their code points, which is
\* the order sqlite and list.sort compare texts by
CodePointOrder ==
    << " ", "-", ".", "/", "0", "1", "2", "3", "4", "5", "6", "7", "8", "9",
       "R", "a", "n", "x", "NEN", "NICHI", "GATSU", "WA", "REI", "SHUU", "NYUU",
       "SHI", "SHUTSU" >>
CodePointRank(c) == CHOOSE i \in 1..Len(CodePointOrder) : CodePointOrder[i] = c

\* a < b for two texts
RECURSIVE text_less(_, _)
text_less(a, b) ==
    IF b = <<>> THEN FALSE
    ELSE IF a = <<>> THEN TRUE
    ELSE IF Head(a) = Head(b) THEN text_less(Tail(a), Tail(b))
    ELSE CodePointRank(Head(a)) < CodePointRank(Head(b))

\* list.sort(reverse=True) of a set of texts
RECURSIVE sorted_descending(_)
sorted_descending(S) ==
    IF S = {} THEN <<>>
    ELSE LET top == CHOOSE x \in S : \A y \in S \ {x} : text_less(y, x)
         IN  <<top>> \o sorted_descending(S \ {top})

\* SELECT DISTINCT substr(date, 1, 7) of a table
distinct_months(rows) == { substr_1_7(rows[k].date) : k \in 1..Len(rows) }

\* get_available_months(): the SELECT on kakeibo_archive raises while that
\* table does not exist, and the except clause returns the empty list
get_available_months(table, archive) ==
    IF ~archive.exists
    THEN <<>>
    ELSE sorted_descending(distinct_months(table) \cup distinct_months(archive.rows))

\* create_monthly_backup(month): False when get_monthly_data finds no row of
\* the month in table kakeibo or when the file cannot be written, True when
\* the file of the month has been written
create_monthly_backup(month, table, unwritable) ==
    InMonth(table, month) # <<>> /\ month \notin unwritable

\* the loop of cleanup_old_data over months_to_archive: a month is archived
\* when its backup succeeded, and what archive_monthly_data returns is not
\* looked at
RECURSIVE cleanup_months(_, _, _, _, _, _)
cleanup_months(months_to_archive, table, archive, written, unwritable, fault) ==
    IF months_to_archive = <<>>
    THEN [table |-> table, archive |-> archive, backups |-> written]
    ELSE LET month == Head(months_to_archive) IN
         IF create_monthly_backup(month, table, unwritable)
         THEN \* eager binding of the result of the call
              LET r == CHOOSE x \in {archive_monthly_data(month, table, archive, fault)} : TRUE
              IN  cleanup_months(Tail(months_to_archive), r.table, r.archive,
                                 written \cup {month}, unwritable, fault)
         ELSE cleanup_months(Tail(months_to_archive), table, archive,
                             written, unwritable, fault)

\* cleanup_old_data(months_to_keep)
cleanup_old_data(months_to_keep, table, archive, written, unwritable, fault) ==
    LET available_months == get_available_months(table, archive) IN
    IF Len(available_months) <= months_to_keep
    THEN [ret |-> TRUE, table |-> table, archive |-> archive, backups |-> written]
    ELSE LET months_to_archive ==
                SubSeq(available_months, months_to_keep + 1, Len(available_months))
             r == cleanup_months(months_to_archive, table, archive, written,
                                 unwritable, fault)
         IN  [ret |-> TRUE, table |-> r.table, archive |-> r.archive,
              backups |-> r.backups]

\* export_to_csv: SELECT * FROM kakeibo written by to_csv, the id column
\* included; nothing is written for an empty table
exported_columns == {"id", "date", "category", "subject", "amount"}
export_to_csv(table, old_file) ==
    IF table = <<>>
    THEN old_file
    ELSE [columns |-> exported_columns,
          rows |-> [k \in 1..Len(table) |->
                      [id |-> DecDigits(table[k].id),
                       date |-> table[k].date,
                       category |-> table[k].category,
                       subject |-> table[k].subject,
                       amount |-> py_str(table[k].amount)]]]

-----------------------------------------------------------------------------
(* Monthly summary and statistics *)

\* the two categories the application knows (two kanji each)
Income == <<"SHUU", "NYUU">>
Expense == <<"SHI", "SHUTSU">>

\* Series.sum() of a column of numbers
RECURSIVE amount_sum(_)
amount_sum(rows) ==
    IF rows = <<>> THEN 0 ELSE Head(rows).amount.n + amount_sum(Tail(rows))

\* a variant that takes the positive amounts for income and the negative
\* ones for expense
with_category_by_sign(rows, category) ==
    SelectSeq(rows, LAMBDA r : IF category = <<"SHUU", "NYUU">>
                               THEN r.amount.n > 0 ELSE r.amount.n < 0)

\* df[df['category'] == category]
with_category(rows, category) == SelectSeq(rows, LAMBDA r : r.category = category)

has_text_amount(rows) == \E k \in 1..Len(rows) : rows[k].amount.t = "str"

NoTotals == [ret |-> "none", income_total |-> 0, expense_total |-> 0, balance |-> 0]
\* the three numbers both functions compute from the rows of the month
monthly_totals(rows) ==
    [ret |-> "totals",
     income_total |-> amount_sum(with_category(rows, Income)),
     expense_total |-> amount_sum(with_category(rows, Expense)),
     balance |-> amount_sum(with_category(rows, Income))
                    - amount_sum(with_category(rows, Expense))]

\* fetch_monthly_summary(month): None for a month without rows, and None
\* from the except clause when the sum meets an amount stored as a text;
\* otherwise the text that prints the three numbers
fetch_monthly_summary(table, month) ==
    LET rows == InMonth(table, month) IN
    IF rows = <<>> THEN NoTotals
    ELSE IF has_text_amount(with_category(rows, Income))
            \/ has_text_amount(with_category(rows, Expense))
    THEN NoTotals
    ELSE monthly_totals(rows)

\* get_monthly_statistics(month): the same totals in the dictionary stats.
\* With an amount stored as a text among the other rows of the month the
\* groupby sum of line 609 may raise or not, depending on pandas.
get_monthly_statistics(table, month) ==
    LET rows == InMonth(table, month) IN
    IF rows = <<>> THEN {NoTotals}
    ELSE IF has_text_amount(with_category(rows, Income))
            \/ has_text_amount(with_category(rows, Expense))
    THEN {NoTotals}
    ELSE IF has_text_amount(rows)
    THEN {NoTotals, monthly_totals(rows)}
    ELSE {monthly_totals(rows)}

-----------------------------------------------------------------------------
(* Inputs of the date normaliser *)

\* every text of one or two digits, and every text of exactly two digits
OneDigit == { <<a>> : a \in DigitSet }
TwoDigits == { <<a, b>> : a, b \in DigitSet }
OneOrTwoDigits == OneDigit \cup TwoDigits
\* a few field values that are combined with every value of another field
FewFields == { <<"1">>, <<"1", "2">> }
FewTwoDigits == { <<"0", "1">>, <<"4", "5">> }
Years4 == { <<"2", "0", "2", "4">>, <<"0", "0", "0", "0">>,
            <<"9", "9", "9", "9">>, <<"0", "0", "2", "4">> }

\* (era year, month, day): each field takes every one- or two-digit text
\* while the two others take a few, plus the examples of the specification
EraTriples ==
    (OneOrTwoDigits \X FewFields \X FewFields)
    \cup (FewFields \X OneOrTwoDigits \X FewFields)
    \cup (FewFields \X FewFields \X OneOrTwoDigits)
    \cup { <<<<"1">>, <<"5">>, <<"1">>>>, <<<<"6">>, <<"1", "2">>, <<"3", "1">>>>,
           <<<<"9", "9">>, <<"0">>, <<"9", "9">>>> }

\* (year, month, day) with a four-digit year
GregorianTriples ==
    (Years4 \X OneOrTwoDigits \X FewFields)
    \cup (Years4 \X FewFields \X OneOrTwoDigits)
    \cup { <<<<"2", "0", "2", "4">>, <<"1">>, <<"5">>>>,
           <<<<"2", "0", "2", "4">>, <<"0">>, <<"9", "9">>>> }

\* (year, month, day) of the texts that are already YYYY-MM-DD
CanonicalTriples ==
    (Years4 \X TwoDigits \X FewTwoDigits)
    \cup (Years4 \X FewTwoDigits \X TwoDigits)
    \cup { <<<<"2", "0", "2", "4">>, <<"1", "3">>, <<"4", "5">>>> }

ReiwaLongText(y, m, d) ==
    <<"REI", "WA">> \o y \o <<"NEN">> \o m \o <<"GATSU">> \o d \o <<"NICHI">>
ReiwaShortText(y, m, d) == <<"R">> \o y \o <<"/">> \o m \o <<"/">> \o d
KanjiText(y, m, d) == y \o <<"NEN">> \o m \o <<"GATSU">> \o d \o <<"NICHI">>
SlashText(y, m, d) == y \o <<"/">> \o m \o <<"/">> \o d
CanonicalText(y, m, d) == y \o <<"-">> \o m \o <<"-">> \o d

ReiwaLongInputs == { ReiwaLongText(t[1], t[2], t[3]) : t \in EraTriples }
ReiwaShortInputs == { ReiwaShortText(t[1], t[2], t[3]) : t \in EraTriples }
KanjiInputs == { KanjiText(t[1], t[2], t[3]) : t \in GregorianTriples }
SlashInputs == { SlashText(t[1], t[2], t[3]) : t \in GregorianTriples }
CanonicalInputs == { CanonicalText(t[1], t[2], t[3]) : t \in CanonicalTriples }

\* texts of no form, texts that pass a branch guard without matching its
\* pattern, and texts on which the conditions of several branches hold
OddInputs ==
    { <<"x", "x", "x", Blank, "x">>,                       \* not a date
      <<"x">>, <<"-">>, <<"R">>, <<"/">>, <<"REI", "WA">>,
      <<"2", "0", "2", "4", "-", "1", "-", "5">>,          \* 2024-1-5
      <<"2", "0", "2", "4", "0", "1", "0", "5">>,          \* 20240105
      <<"2", "0", "2", "4", "-", "0", "1", "-", "0", "5", "x">>,
      <<"1", "2", "/", "3", "1">>,                         \* 12/31
      <<"2", "4", "/", "1", "/", "5">>,                    \* 24/1/5
      <<"R", "6", "-", "1", "-", "5">>,                    \* R6-1-5
      <<"R", "1", "2", "3", "/", "1", "/", "5">>,          \* R123/1/5
      <<"R", "6", "/", "1", "2", "/", "3", "1", "9">>,     \* R6/12/319
      <<"R", "6", "/", "1", "/", "5", "NEN", "GATSU", "NICHI">>,
      <<"REI", "WA", "6", "NEN", "1", "GATSU">>,           \* no day
      <<"REI", "WA", "1", "2", "3", "NEN", "1", "GATSU", "5", "NICHI">>,
      <<"REI", "WA", "6", "NEN", "1", "GATSU", "5", "NICHI", "x">>,
      <<"x", "REI", "WA", "6", "NEN", "1", "GATSU", "5", "NICHI">>,
      <<"R", "REI", "WA", "6", "/", "1", "/", "5">>,
      <<"R", "6", "/", "1", "/", "5", "REI", "WA">>,
      <<"2", "0", "2", "4", "/", "1", "/", "5", "REI", "WA">>,
      <<"2", "0", "2", "4", "/", "1", "/", "5", "NEN", "GATSU", "NICHI">>,
      <<"2", "0", "2", "4", "NEN", "1", "GATSU", "5", "NICHI", "/">>,
      <<"2", "0", "2", "4", "NEN", "1", "/", "5", "NICHI", "GATSU">>,
      <<"2", "0", "2", "4", "5", "NEN", "1", "GATSU", "5", "NICHI">>,
      <<"2", "0", "2", "4", "/", "1", "2", "3", "/", "5">>,
      <<"2", "0", "2", "4", "/", "1", "/", "5", "1", "2">> }

Blanks(k) == [i \in 1..k |-> Blank]

\* the texts that are also given with blanks around them
PaddedCore ==
    { ReiwaLongText(y, m, d) : y, m, d \in FewFields }
    \cup { ReiwaShortText(y, m, d) : y, m, d \in FewFields }
    \cup { KanjiText(y, m, d) : y \in Years4, m, d \in FewFields }
    \cup { SlashText(y, m, d) : y \in Years4, m, d \in FewFields }
    \cup { CanonicalText(y, m, d) : y \in Years4, m, d \in FewTwoDigits }
    \cup OddInputs \cup {<<>>}

PaddedInputs ==
    { Blanks(l) \o s \o Blanks(r) : l, r \in 0..MaxPad, s \in PaddedCore }

DateInputs ==
    {NoneVal, NaNVal, <<>>}
    \cup ReiwaLongInputs \cup ReiwaShortInputs \cup KanjiInputs
    \cup SlashInputs \cup CanonicalInputs \cup PaddedInputs

-----------------------------------------------------------------------------
(* The normaliser applied to one input, and then to its own result *)

\* the view, the archive and the export, which these operations leave alone
call_vars == <<returned, backups>>
store_vars == <<table_widget, kakeibo_archive, exported, reimported, edits,
               returned, backups>>
NoCsv == [columns |-> {}, rows |-> <<>>]
NoArchive == [exists |-> FALSE, rows |-> <<>>, next_id |-> 1]
StoreUntouched ==
    /\ table_widget = <<>>
    /\ kakeibo_archive = NoArchive
    /\ exported = NoCsv
    /\ reimported = <<>>
    /\ edits = 0
    /\ returned = "none"
    /\ backups = {}

NoConv == [ret |-> NoneVal, via |-> "none", tried |-> <<>>]
NoReport == [ret |-> "none", success_count |-> 0, error_count |-> 0,
             error_details |-> <<>>, errors |-> <<>>, warnings |-> <<>>]

InitDate ==
    /\ date_str \in DateInputs
    /\ phase = "input"
    /\ conv = NoConv
    /\ conv2 = NoConv
    /\ kakeibo = <<>>
    /\ next_id = 1
    /\ csv = NoCsv
    /\ df = NoCsv
    /\ report = NoReport
    /\ StoreUntouched

\* convert_date_format(date_str)
Normalize ==
    /\ phase = "input"
    /\ conv' \in convert_outcomes(date_str)
    /\ phase' = "converted"
    /\ UNCHANGED <<date_str, conv2, kakeibo, next_id, csv, df, report>>
    /\ UNCHANGED store_vars

\* convert_date_format applied to the text the first call returned
Renormalize ==
    /\ phase = "converted"
    /\ conv.ret # NoneVal
    /\ conv2' \in convert_outcomes(conv.ret)
    /\ phase' = "reconverted"
    /\ UNCHANGED <<date_str, conv, kakeibo, next_id, csv, df, report>>
    /\ UNCHANGED store_vars

NextDate == Normalize \/ Renormalize

SpecDate == InitDate /\ [][NextDate]_vars

-----------------------------------------------------------------------------
(* Vocabulary of the properties of the normaliser.  These definitions       *)
(* describe texts and expected results on their own terms; they do not use  *)
(* the operators that model the code.                                       *)

SetMin(S) == CHOOSE i \in S : \A j \in S : i <= j
SetMax(S) == CHOOSE i \in S : \A j \in S : j <= i

\* the text without its leading and trailing blanks
Trimmed(s) ==
    LET solid == { i \in 1..Len(s) : s[i] # Blank } IN
    IF solid = {} THEN <<>> ELSE SubSeq(s, SetMin(solid), SetMax(solid))

IsNullInput(d) == d \in {NoneVal, NaNVal}
IsBlankText(d) == ~IsNullInput(d) /\ \A i \in 1..Len(d) : d[i] = Blank

AllDigits(s) == \A i \in 1..Len(s) : s[i] \in DigitSet
IsField12(s) == Len(s) \in {1, 2} /\ AllDigits(s)
IsYear4(s) == Len(s) = 4 /\ AllDigits(s)

\* four digits, hyphen, two digits, hyphen, two digits
LooksCanonical(s) ==
    /\ Len(s) = 10
    /\ IsYear4(SubSeq(s, 1, 4)) /\ s[5] = "-"
    /\ AllDigits(SubSeq(s, 6, 7)) /\ s[8] = "-"
    /\ AllDigits(SubSeq(s, 9, 10))

\* position of the first token c in s, 0 when there is none
FirstPos(s, c) ==
    LET at == { i \in 1..Len(s) : s[i] = c } IN
    IF at = {} THEN 0 ELSE SetMin(at)
\* position of the first token c after position p, 0 when there is none
NextPos(s, c, p) ==
    LET at == { i \in (p + 1)..Len(s) : s[i] = c } IN
    IF at = {} THEN 0 ELSE SetMin(at)

\* The fields of a text  head y NEN m GATSU d NICHI  (head is REI WA or
\* nothing); <<>> when the text is not of that shape with a year of ylen
\* digits (ylen = 0: one or two digits)
KanjiFields(s, head, ylen) ==
    LET h == Len(head)
        pn == FirstPos(s, "NEN")
        pg == FirstPos(s, "GATSU")
        pd == FirstPos(s, "NICHI")
        y == SubSeq(s, h + 1, pn - 1)
        m == SubSeq(s, pn + 1, pg - 1)
        d == SubSeq(s, pg + 1, pd - 1)
    IN  IF /\ Len(s) >= h /\ SubSeq(s, 1, h) = head
           /\ pn > 0 /\ pg > pn /\ pd > pg /\ pd = Len(s)
           /\ (IF ylen = 0 THEN IsField12(y) ELSE (Len(y) = ylen /\ AllDigits(y)))
           /\ IsField12(m) /\ IsField12(d)
        THEN <<y, m, d>>
        ELSE <<>>

\* The fields of a text  head y / m / d ; <<>> when it is not of that shape
SlashFields(s, head, ylen) ==
    LET h == Len(head)
        p1 == FirstPos(s, "/")
        p2 == NextPos(s, "/", p1)
        y == SubSeq(s, h + 1, p1 - 1)
        m == SubSeq(s, p1 + 1, p2 - 1)
        d == SubSeq(s, p2 + 1, Len(s))
    IN  IF /\ Len(s) >= h /\ SubSeq(s, 1, h) = head
           /\ p1 > 0 /\ p2 > p1
           /\ (IF ylen = 0 THEN IsField12(y) ELSE (Len(y) = ylen /\ AllDigits(y)))
           /\ IsField12(m) /\ IsField12(d)
        THEN <<y, m, d>>
        ELSE <<>>

\* the number a text of digits denotes, by table
TwoDigitText == [n \in 0..99 |-> <<Digits[(n \div 10) + 1], Digits[(n % 10) + 1]>>]
Padded2(f) == IF Len(f) = 1 THEN <<"0">> \o f ELSE f
FieldValue(f) == CHOOSE n \in 0..99 : TwoDigitText[n] = Padded2(f)
FourDigitText(n) == TwoDigitText[n \div 100] \o TwoDigitText[n % 100]

\* (Y + 2018)-MM-DD for era fields y, m, d
EraExpected(y, m, d) ==
    FourDigitText(FieldValue(y) + 2018) \o <<"-">> \o Padded2(m) \o <<"-">> \o Padded2(d)
\* YYYY-MM-DD for a four-digit year text and fields m, d
GregorianExpected(y, m, d) == y \o <<"-">> \o Padded2(m) \o <<"-">> \o Padded2(d)

Converted == phase \in {"converted", "reconverted"}

-----------------------------------------------------------------------------
(* Properties of convert_date_format, checked under SpecDate *)

\* C1: an input that, trimmed, is four digits, hyphen, two digits, hyphen,
\* two digits comes back as that text, whatever month and day it names, and
\* normalising the result again gives the same text.
C1_CanonicalIsIdentity ==
    LooksCanonical(Trimmed(date_str)) =>
        /\ Converted => conv.ret = Trimmed(date_str)
        /\ phase = "reconverted" => conv2.ret = Trimmed(date_str)

C1_Witness ==
    /\ phase = "reconverted"
    /\ date_str = <<"2", "0", "2", "4", "-", "1", "3", "-", "4", "5">>
    /\ conv.ret = date_str
    /\ conv2.ret = date_str

\* C2: the Reiwa long form with one- or two-digit Y, M, D gives
\* (Y + 2018)-MM-DD, month and day zero-padded and not range checked;
\* REIWA 1-5-1 gives 2019-05-01 and REIWA 6-12-31 gives 2024-12-31.
C2_ReiwaLong ==
    Converted =>
        LET f == KanjiFields(Trimmed(date_str), <<"REI", "WA">>, 0) IN
        /\ f # <<>> => conv.ret = EraExpected(f[1], f[2], f[3])
        /\ date_str = ReiwaLongText(<<"1">>, <<"5">>, <<"1">>)
              => conv.ret = <<"2", "0", "1", "9", "-", "0", "5", "-", "0", "1">>
        /\ date_str = ReiwaLongText(<<"6">>, <<"1", "2">>, <<"3", "1">>)
              => conv.ret = <<"2", "0", "2", "4", "-", "1", "2", "-", "3", "1">>

C2_Witness ==
    /\ Converted
    /\ date_str = ReiwaLongText(<<"9", "9">>, <<"0">>, <<"9", "9">>)
    /\ conv.ret = <<"2", "1", "1", "7", "-", "0", "0", "-", "9", "9">>

\* C3: the short form R Y/M/D gives what the long form with the same Y, M, D
\* gives; R6/12/31 gives 2024-12-31.
C3_ReiwaShortAsLong ==
    Converted =>
        LET f == SlashFields(Trimmed(date_str), <<"R">>, 0) IN
        /\ f # <<>> =>
              /\ \A o \in convert_outcomes(ReiwaLongText(f[1], f[2], f[3])) : conv.ret = o.ret
              /\ conv.ret = EraExpected(f[1], f[2], f[3])
        /\ date_str = ReiwaShortText(<<"6">>, <<"1", "2">>, <<"3", "1">>)
              => conv.ret = <<"2", "0", "2", "4", "-", "1", "2", "-", "3", "1">>

C3_Witness ==
    /\ Converted
    /\ date_str = ReiwaShortText(<<"6">>, <<"1", "2">>, <<"3", "1">>)
    /\ conv.ret = <<"2", "0", "2", "4", "-", "1", "2", "-", "3", "1">>

\* C4: YYYY NEN M GATSU D NICHI and YYYY/M/D give YYYY-MM-DD, the year taken
\* literally, month and day zero-padded; both forms of 2024-1-5 give
\* 2024-01-05.
C4_GregorianForms ==
    Converted =>
        LET k == KanjiFields(Trimmed(date_str), <<>>, 4)
            s == SlashFields(Trimmed(date_str), <<>>, 4)
        IN  /\ k # <<>> => conv.ret = GregorianExpected(k[1], k[2], k[3])
            /\ s # <<>> => conv.ret = GregorianExpected(s[1], s[2], s[3])
            /\ date_str \in { KanjiText(<<"2", "0", "2", "4">>, <<"1">>, <<"5">>),
                              SlashText(<<"2", "0", "2", "4">>, <<"1">>, <<"5">>) }
                  => conv.ret = <<"2", "0", "2", "4", "-", "0", "1", "-", "0", "5">>

C4_Witness ==
    /\ Converted
    /\ date_str = SlashText(<<"0", "0", "2", "4">>, <<"1">>, <<"5">>)
    /\ conv.ret = <<"0", "0", "2", "4", "-", "0", "1", "-", "0", "5">>

\* the text "not a date" of the specification: letters and a blank
NotADate == <<"x", "x", "x", Blank, "x">>

\* C5: no exception leaves convert_date_format: the empty text, a missing
\* value, a text nothing can interpret, and a failure of the fallback parser
\* all end in the value None.
C5_NeverRaises ==
    /\ Converted =>
          /\ conv.ret # Raised
          /\ date_str \in {<<>>, NoneVal, NaNVal, NotADate} => conv.ret = NoneVal
          /\ (~IsNullInput(date_str) /\ ~\E i \in 1..Len(date_str) : date_str[i] \in DigitSet)
                => conv.ret = NoneVal
          /\ conv.via = "except" => conv.ret = NoneVal
    /\ phase = "reconverted" => conv2.ret # Raised

C5_Witness ==
    /\ Converted
    /\ date_str = NotADate
    /\ conv.via = "except"
    /\ conv.tried = <<"canonical", "parser">>
    /\ conv.ret = NoneVal

\* the forms in the order canonical, Reiwa long, Reiwa short, Gregorian
\* kanji, slash: the first of 1..4 whose pattern matches s, 0 when none does
FirstMatchingForm(s) ==
    LET hits == { k \in 1..4 : BranchMatch(k, s) # <<>> } IN
    IF hits = {} THEN 0 ELSE SetMin(hits)

\* C6: the result is the conversion of the first form, in the order
\* canonical, Reiwa long, Reiwa short, Gregorian kanji, slash, that matches
\* the input; the fallback parser is consulted only when no form matches,
\* and it never decides the result of an input that a form matches.
C6_FirstMatchWins ==
    (Converted /\ ~IsNullInput(date_str) /\ date_str # <<>>) =>
        LET s == Trimmed(date_str)
            k == FirstMatchingForm(s)
        IN  IF LooksCanonical(s)
            THEN conv.via = "canonical" /\ conv.ret = s /\ conv.tried = <<"canonical">>
            ELSE IF k # 0
            THEN /\ conv.via = BranchName(k)
                 /\ conv.ret = BranchConvert(k, BranchMatch(k, s))
                 /\ \A i \in 1..Len(conv.tried) : conv.tried[i] # "parser"
                 /\ conv.tried[Len(conv.tried)] = BranchName(k)
            ELSE /\ conv.via \in {"fallback", "except"}
                 /\ conv.tried[Len(conv.tried)] = "parser"

\* the conditions of the kanji branch and of the slash branch both hold and
\* the kanji form, which comes first, gives the result
C6_Witness ==
    /\ Converted
    /\ date_str = <<"2", "0", "2", "4", "NEN", "1", "GATSU", "5", "NICHI", "/">>
    /\ conv.via = "kanji"
    /\ conv.ret = <<"2", "0", "2", "4", "-", "0", "1", "-", "0", "5">>

\* C7: an empty, missing or blank-only input is answered None by the initial
\* guard: no pattern is tried and the fallback parser is not called.
C7_BlankStopsAtGuard ==
    (Converted /\ (IsNullInput(date_str) \/ IsBlankText(date_str))) =>
        /\ conv.ret = NoneVal
        /\ conv.via = "guard"
        /\ conv.tried = <<>>

-----------------------------------------------------------------------------
(* CSV files handed to import_from_csv *)

\* the header date,category,subject,amount
FourColumns == {"date", "category", "subject", "amount"}

Row(date, category, subject, amount) ==
    [date |-> date, category |-> category, subject |-> subject, amount |-> amount]

GoodDate == <<"2", "0", "2", "4", "-", "0", "1", "-", "0", "5">>
CsvDateTexts ==
    { GoodDate,
      <<"R", "6", "/", "1", "2", "/", "3", "1">>,
      <<"2", "0", "2", "4", "-", "1", "-", "5">>,     \* left to the fallback parser
      <<"x", "x">>,
      <<>> }
CsvAmountTexts == { <<"1", "0", "0">>, <<"-", "5">>, <<"x", "x">>, <<>> }

CsvRowKinds ==
    { Row(d, Expense, <<"x">>, a) : d \in CsvDateTexts, a \in {<<"1", "0", "0">>, <<"x", "x">>} }
    \cup { Row(d, Expense, <<"x">>, a) : d \in {GoodDate, <<"x", "x">>}, a \in CsvAmountTexts }
    \cup { Row(GoodDate, <<Blank>> \o Income \o <<Blank>>, <<Blank, "x", Blank>>, <<"1", "0", "0">>),
           Row(GoodDate, <<"x", "x">>, <<"x">>, <<"-", "5">>),
           Row(GoodDate, <<>>, <<>>, <<"1", "0", "0">>),
           Row(GoodDate, <<Blank>>, <<Blank, Blank>>, <<"-", "5">>),
           Row(GoodDate, <<"0", "7">>, <<"x">>, <<"1", "0", "0">>) }

\* the rows of the files that lack a column
FewRowKinds ==
    { Row(GoodDate, Expense, <<"x">>, <<"1", "0", "0">>),
      Row(<<"x", "x">>, Expense, <<"x">>, <<"x", "x">>) }

RowSeqs(kinds, n) == UNION { [1..k -> kinds] : k \in 0..n }

\* five rows, the third with a date nothing reads, the fifth with an amount
\* that is no number
ExampleFive ==
    [columns |-> FourColumns,
     rows |-> << Row(GoodDate, Income, <<"x">>, <<"1", "0", "0">>),
                 Row(GoodDate, Expense, <<"x">>, <<"-", "5">>),
                 Row(<<"x", "x">>, Expense, <<"x">>, <<"1", "0", "0">>),
                 Row(<<"R", "6", "/", "1", "2", "/", "3", "1">>, Expense, <<"x">>, <<"1", "0", "0">>),
                 Row(GoodDate, Expense, <<"x">>, <<"x", "x">>) >>]

CsvFiles ==
    { [columns |-> FourColumns, rows |-> r] : r \in RowSeqs(CsvRowKinds, MaxRows) }
    \cup { [columns |-> c, rows |-> r] :
              c \in (SUBSET FourColumns) \ {FourColumns},
              r \in RowSeqs(FewRowKinds, MaxRows) }
    \cup { ExampleFive }

\* table kakeibo before the import: empty, or holding an entry saved earlier
\* (the id counter is past the ids handed out so far)
StoredBefore ==
    { [table |-> <<>>, next_id |-> 1],
      [table |-> <<[id |-> 2, date |-> GoodDate, category |-> Income,
                    subject |-> <<"x">>, amount |-> FloatCell(7)]>>,
       next_id |-> 3] }

\* the outcomes of parser.parse on the dates of the rows of a file
ParserOutcomesOfFile(file) ==
    LET n == Len(file.rows) IN
    UNION { { pos \in [1..n -> ParserDates \cup {ParserRaises}] :
                \A i \in 1..n :
                  pos[i] \in (IF "date" \in file.columns
                              THEN parser_outcomes_for(frame.rows[i]["date"])
                              ELSE {ParserRaises}) } :
            frame \in {read_csv(file)} }

-----------------------------------------------------------------------------
(* One import into the table *)

InitImport ==
    /\ csv \in CsvFiles
    /\ \E st \in StoredBefore : kakeibo = st.table /\ next_id = st.next_id
    /\ phase = "loaded"
    /\ date_str = NoneVal
    /\ conv = NoConv
    /\ conv2 = NoConv
    /\ df = NoCsv
    /\ report = NoReport
    /\ StoreUntouched

\* the user picks the file: import_from_csv(filename)
Import ==
    /\ phase = "loaded"
    /\ \E pos \in ParserOutcomesOfFile(csv) :
        \E r \in {import_from_csv(csv, kakeibo, next_id, pos)} :
          /\ kakeibo' = r.table
          /\ next_id' = r.next_id
          /\ df' = r.df
          /\ report' = [ret |-> IF r.ret THEN "True" ELSE "False",
                        success_count |-> r.success_count,
                        error_count |-> r.error_count,
                        error_details |-> r.error_details,
                        errors |-> r.errors,
                        warnings |-> r.warnings]
    /\ phase' = "imported"
    /\ UNCHANGED <<date_str, conv, conv2, csv>>
    /\ UNCHANGED store_vars

NextImport == Import

SpecImport == InitImport /\ [][NextImport]_vars

-----------------------------------------------------------------------------
(* The application at work: form, table view, import, archive, export *)

Form(date, category, subject, amount_str) ==
    [date |-> date, category |-> category, subject |-> subject, amount_str |-> amount_str]

\* what the user types into the form: an entry in era form with a subject
\* typed between blanks, a canonical text that is no calendar date with an
\* empty subject, a date nothing reads, an amount that is no number, and the
\* amount nan, which float() reads and sqlite refuses
SaveForms ==
    { Form(<<"R", "6", "/", "1", "2", "/", "3", "1">>, Expense, <<Blank, "x", Blank>>, <<"-", "5">>),
      Form(<<"2", "0", "2", "4", "-", "1", "3", "-", "4", "5">>, Expense, <<>>, <<"1", "0", "0">>),
      Form(<<"x", "x">>, Income, <<"x">>, <<"1", "0", "0">>),
      Form(GoodDate, Income, <<"x">>, <<"x", "x">>),
      Form(GoodDate, Income, <<"x">>, <<"n", "a", "n">>) }

\* what the user types into a cell of the table
EditTexts == { <<"x", "x">> }

\* the months offered for archive, restore and summary
Months == { <<"2", "0", "2", "4", "-", "0", "1">>, <<"2", "0", "2", "4", "-", "1", "2">> }

\* the files imported while the application is at work
StoreFiles ==
    { [columns |-> FourColumns,
       rows |-> << Row(GoodDate, <<"x", "x">>, <<"x">>, <<"1", "0", "0">>) >>],
      [columns |-> FourColumns,
       rows |-> << Row(<<"x", "x">>, Expense, <<"x">>, <<"1", "0", "0">>),
                   Row(GoodDate, Income, <<"x">>, <<"-", "5">>) >>] }

\* the database after initialize_database, the window after its first load_data
InitStore ==
    /\ kakeibo = <<>>
    /\ next_id = 1
    /\ table_widget = <<>>
    /\ kakeibo_archive = NoArchive
    /\ exported = NoCsv
    /\ reimported = <<>>
    /\ edits = 0
    /\ returned = "none"
    /\ backups = {}
    /\ phase = "open"
    /\ date_str = NoneVal
    /\ conv = NoConv
    /\ conv2 = NoConv
    /\ csv = NoCsv
    /\ df = NoCsv
    /\ report = NoReport

\* the save button: save_record, with load_data after a successful insert
SaveRecordOf(form) ==
    /\ phase = "open"
    /\ UNCHANGED <<date_str, phase, conv, conv2, csv, df, report,
                   kakeibo_archive, exported, reimported, edits>>
    /\ UNCHANGED call_vars
    /\ \E po \in parser_outcomes_for(StrCell(form.date)) :
        \E r \in {save_record(form, kakeibo, next_id, po)} :
          /\ r.next_id <= MaxId + 1
          /\ kakeibo' = r.table
          /\ next_id' = r.next_id
          /\ table_widget' = IF r.ok THEN load_data(r.table) ELSE table_widget

SaveRecord == \E form \in SaveForms : SaveRecordOf(form)

\* the user edits one cell of the table: itemChanged calls update_record
UpdateRecordOf(row, column, new_value) ==
    /\ phase = "open"
    /\ edits < MaxEdits
    /\ edits' = edits + 1
    /\ \E po \in parser_outcomes_for(
                   StrCell([table_widget EXCEPT ![row][column] = new_value][row][2])) :
        \E r \in {update_record(table_widget, kakeibo, row, column, new_value, po)} :
          /\ kakeibo' = r.table
          /\ table_widget' = r.view
    /\ UNCHANGED <<date_str, phase, conv, conv2, next_id, csv, df, report,
                   kakeibo_archive, exported, reimported>>
    /\ UNCHANGED call_vars

UpdateRecord ==
    \E row \in 1..Len(table_widget), column \in 1..5, new_value \in EditTexts :
        UpdateRecordOf(row, column, new_value)

\* the refresh button: load_data
LoadData ==
    /\ phase = "open"
    /\ table_widget' = load_data(kakeibo)
    /\ UNCHANGED <<date_str, phase, conv, conv2, kakeibo, next_id, csv, df, report,
                   kakeibo_archive, exported, reimported, edits>>
    /\ UNCHANGED call_vars

\* the import button: import_csv, with load_data when import_from_csv
\* returns True
ImportCsv ==
    /\ phase = "open"
    /\ \E file \in StoreFiles :
        \E pos \in ParserOutcomesOfFile(file) :
          \E r \in {import_from_csv(file, kakeibo, next_id, pos)} :
            /\ r.next_id <= MaxId + 1
            /\ csv' = file
            /\ kakeibo' = r.table
            /\ next_id' = r.next_id
            /\ df' = r.df
            /\ report' = [ret |-> IF r.ret THEN "True" ELSE "False",
                          success_count |-> r.success_count,
                          error_count |-> r.error_count,
                          error_details |-> r.error_details,
                          errors |-> r.errors,
                          warnings |-> r.warnings]
            /\ table_widget' = IF r.ret THEN load_data(r.table) ELSE table_widget
    /\ UNCHANGED <<date_str, phase, conv, conv2, kakeibo_archive, exported, reimported, edits>>
    /\ UNCHANGED call_vars

\* the archive button: archive_monthly_data_gui for the month selected
ArchiveMonth ==
    /\ phase = "open"
    /\ \E month \in Months, fault \in SqliteFaults :
        \E r \in {archive_monthly_data(month, kakeibo, kakeibo_archive, fault)} :
          /\ kakeibo' = r.table
          /\ kakeibo_archive' = r.archive
          /\ table_widget' = IF r.ret THEN load_data(r.table) ELSE table_widget
    /\ UNCHANGED <<date_str, phase, conv, conv2, next_id, csv, df, report,
                   exported, reimported, edits>>
    /\ UNCHANGED call_vars

\* the restore button: restore_monthly_data_gui for the month selected
RestoreMonth ==
    /\ phase = "open"
    /\ \E month \in Months, fault \in SqliteFaults :
        \E r \in {restore_monthly_data(month, kakeibo, next_id, kakeibo_archive, fault)} :
          /\ r.next_id <= MaxId + 1
          /\ kakeibo' = r.table
          /\ next_id' = r.next_id
          /\ kakeibo_archive' = r.archive
          /\ table_widget' = IF r.ret THEN load_data(r.table) ELSE table_widget
    /\ UNCHANGED <<date_str, phase, conv, conv2, csv, df, report, exported, reimported,
                   edits>>
    /\ UNCHANGED call_vars

\* the export button: export_csv writes the whole table to a file
ExportCsv ==
    /\ phase = "open"
    /\ exported' = export_to_csv(kakeibo, exported)
    /\ phase' = "exported"
    /\ UNCHANGED <<date_str, conv, conv2, kakeibo, next_id, csv, df, report,
                   table_widget, kakeibo_archive, reimported, edits>>
    /\ UNCHANGED call_vars

\* the exported file is imported into a database that initialize_database
\* has just created
ImportExported ==
    /\ phase = "exported"
    /\ exported # NoCsv
    /\ \E pos \in ParserOutcomesOfFile(exported) :
        \E r \in {import_from_csv(exported, <<>>, 1, pos)} :
          /\ csv' = exported
          /\ reimported' = r.table
          /\ df' = r.df
          /\ report' = [ret |-> IF r.ret THEN "True" ELSE "False",
                        success_count |-> r.success_count,
                        error_count |-> r.error_count,
                        error_details |-> r.error_details,
                        errors |-> r.errors,
                        warnings |-> r.warnings]
    /\ phase' = "reimported"
    /\ UNCHANGED <<date_str, conv, conv2, kakeibo, next_id,
                   table_widget, kakeibo_archive, exported, edits>>
    /\ UNCHANGED call_vars

Next ==
    \/ SaveRecord
    \/ UpdateRecord
    \/ LoadData
    \/ ImportCsv
    \/ ArchiveMonth
    \/ RestoreMonth

Spec == InitStore /\ [][Next]_vars

\* the same with the export of the table and the import of the exported file
NextRoundTrip ==
    \/ Next
    \/ ExportCsv
    \/ ImportExported

SpecRoundTrip == InitStore /\ [][NextRoundTrip]_vars

\* ---------------------------------------------------------------------
\* The archive functions called directly, where the caller sees what they
\* return
\* ---------------------------------------------------------------------

ReturnText(ret) == IF ret THEN "True" ELSE "False"

\* archive_monthly_data(month)
ArchiveCallOf(month, fault) ==
    /\ phase = "open"
    /\ \E r \in {archive_monthly_data(month, kakeibo, kakeibo_archive, fault)} :
          /\ kakeibo' = r.table
          /\ kakeibo_archive' = r.archive
          /\ returned' = ReturnText(r.ret)
    /\ UNCHANGED <<date_str, phase, conv, conv2, next_id, csv, df, report,
                   table_widget, exported, reimported, edits, backups>>

ArchiveCall == \E month \in Months, fault \in SqliteFaults : ArchiveCallOf(month, fault)

\* restore_monthly_data(month)
RestoreCallOf(month, fault) ==
    /\ phase = "open"
    /\ \E r \in {restore_monthly_data(month, kakeibo, next_id, kakeibo_archive, fault)} :
          /\ r.next_id <= MaxId + 1
          /\ kakeibo' = r.table
          /\ next_id' = r.next_id
          /\ kakeibo_archive' = r.archive
          /\ returned' = ReturnText(r.ret)
    /\ UNCHANGED <<date_str, phase, conv, conv2, csv, df, report,
                   table_widget, exported, reimported, edits, backups>>

RestoreCall == \E month \in Months, fault \in SqliteFaults : RestoreCallOf(month, fault)

\* the numbers of months to keep that cleanup_old_data is called with
KeepMonths == {1, 2}

\* cleanup_old_data(months_to_keep), where the backup files of the months in
\* unwritable cannot be written
CleanupCallOf(months_to_keep, unwritable, fault) ==
    /\ phase = "open"
    /\ \E r \in {cleanup_old_data(months_to_keep, kakeibo, kakeibo_archive,
                                  backups, unwritable, fault)} :
          /\ kakeibo' = r.table
          /\ kakeibo_archive' = r.archive
          /\ backups' = r.backups
          /\ returned' = ReturnText(r.ret)
    /\ UNCHANGED <<date_str, phase, conv, conv2, next_id, csv, df, report,
                   table_widget, exported, reimported, edits>>

CleanupCall ==
    \E months_to_keep \in KeepMonths, unwritable \in SUBSET distinct_months(kakeibo),
       fault \in SqliteFaults :
        CleanupCallOf(months_to_keep, unwritable, fault)

NextArchive ==
    \/ SaveRecord
    \/ ImportCsv
    \/ ArchiveCall
    \/ RestoreCall
    \/ CleanupCall

SpecArchive == InitStore /\ [][NextArchive]_vars

-----------------------------------------------------------------------------
(* Properties of import_from_csv, checked under SpecImport *)

Imports == phase = "loaded" /\ phase' = "imported"
Imported == phase = "imported"

\* the row numbers of the entries of error_details, in order
RejectedRows(details) == [k \in 1..Len(details) |-> details[k].row]
StrictlyIncreasing(q) == \A a, b \in 1..Len(q) : a < b => q[a] < q[b]

\* C8: a file that lacks one of the columns date, category, subject, amount
\* is rejected as a whole: one structural error that names the missing
\* columns, no row accepted, no row rejected, nothing inserted, False
\* returned.
C8_MissingColumnRejectsBatch ==
    [][ (Imports /\ csv.columns # FourColumns) =>
          /\ report'.ret = "False"
          /\ Len(report'.errors) = 1
          /\ report'.errors[1].kind = "missing_columns"
          /\ report'.errors[1].columns = FourColumns \ csv.columns
          /\ report'.success_count = 0
          /\ report'.error_count = 0
          /\ report'.error_details = <<>>
          /\ kakeibo' = kakeibo
          /\ next_id' = next_id ]_vars

C8_Witness ==
    /\ Imported
    /\ csv.columns = FourColumns \ {"amount"}
    /\ Len(csv.rows) = 2
    /\ kakeibo # <<>>
    /\ report.ret = "False"
    /\ report.errors = <<[kind |-> "missing_columns", columns |-> {"amount"}]>>

\* C9: with the four columns present every row is processed and ends either
\* inserted or as one entry of the error list: the two counts add up to the
\* number of rows, the entries name distinct rows in file order, the table
\* grows by the accepted rows, and True is returned; the five-row example
\* gives 3 accepted and rows 3 and 5 rejected.
C9_EveryRowAcceptedOrRejected ==
    [][ (Imports /\ csv.columns = FourColumns) =>
          /\ report'.ret = "True"
          /\ report'.success_count + report'.error_count = Len(csv.rows)
          /\ Len(report'.error_details) = report'.error_count
          /\ StrictlyIncreasing(RejectedRows(report'.error_details))
          /\ \A k \in 1..Len(report'.error_details) :
                report'.error_details[k].row \in 1..Len(csv.rows)
          /\ Len(kakeibo') = Len(kakeibo) + report'.success_count
          /\ SubSeq(kakeibo', 1, Len(kakeibo)) = kakeibo
          /\ csv = ExampleFive =>
                /\ report'.success_count = 3
                /\ RejectedRows(report'.error_details) = <<3, 5>> ]_vars

C9_Witness ==
    /\ Imported
    /\ csv = ExampleFive
    /\ report.ret = "True"
    /\ report.success_count = 3
    /\ RejectedRows(report.error_details) = <<3, 5>>
    /\ Len(kakeibo) = 4

\* texts of the date column known to normalise, and the amount text that is
\* no number
NormalisableDates == { GoodDate, <<"R", "6", "/", "1", "2", "/", "3", "1">> }
BadAmountText == <<"x", "x">>

\* C10: a row whose date normalises and whose amount is no number is
\* rejected with an invalid-amount entry that names the row (1-based) and
\* carries the amount text of the file.
C10_InvalidAmountEntry ==
    (Imported /\ csv.columns = FourColumns) =>
        \A i \in 1..Len(csv.rows) :
            (csv.rows[i].date \in NormalisableDates /\ csv.rows[i].amount = BadAmountText)
            => \E k \in 1..Len(report.error_details) :
                  report.error_details[k] = [row |-> i, kind |-> "amount", value |-> BadAmountText]

\* date texts that no branch and no parser reads, and what the entry shows
\* for each: the text itself, or nan for an empty cell
UnreadableDates == { <<"x", "x">>, <<>> }
ShownDate(text) == IF text = <<>> THEN <<"n", "a", "n">> ELSE text
EntriesOfRow(details, i) == { k \in 1..Len(details) : details[k].row = i }

\* C11: a row whose date cannot be normalised is not inserted and gives
\* exactly one rejection entry, a date entry that names the 1-based row and
\* carries the date value of the file; the date is checked before the
\* amount, so a row with a bad date and a bad amount gives the date entry
\* only.
C11_BadDateRejected ==
    [][ (Imports /\ csv.columns = FourColumns) =>
          /\ \A i \in 1..Len(csv.rows) :
                csv.rows[i].date \in UnreadableDates =>
                    /\ Cardinality(EntriesOfRow(report'.error_details, i)) = 1
                    /\ \A k \in EntriesOfRow(report'.error_details, i) :
                          report'.error_details[k] =
                              [row |-> i, kind |-> "date",
                               value |-> ShownDate(csv.rows[i].date)]
          /\ Len(kakeibo') - Len(kakeibo) <=
                Cardinality({ i \in 1..Len(csv.rows) :
                                csv.rows[i].date \notin UnreadableDates }) ]_vars

C11_Witness ==
    /\ Imported
    /\ csv.columns = FourColumns
    /\ Len(csv.rows) = 2
    /\ csv.rows[1].date = <<"x", "x">>
    /\ csv.rows[1].amount = BadAmountText
    /\ csv.rows[2].date = GoodDate
    /\ report.error_details = <<[row |-> 1, kind |-> "date", value |-> <<"x", "x">>]>>
    /\ report.success_count = 1
    /\ Len(kakeibo) = 1

\* the rows that no entry of the error list names, in file order, and the
\* position in the table of the entry that accepted row i became
RECURSIVE SortedSeq(_)
SortedSeq(S) == IF S = {} THEN <<>> ELSE <<SetMin(S)>> \o SortedSeq(S \ {SetMin(S)})
AcceptedRows(details, n) ==
    SortedSeq((1..n) \ { details[k].row : k \in 1..Len(details) })
\* the amounts written in the files, as numbers
AmountOfText(text) ==
    CASE text = <<"1", "0", "0">> -> 100
      [] text = <<"-", "5">> -> 0 - 5

\* C17: the rows are handled in file order: the entries inserted are the
\* accepted rows in the order of the file, with ids that grow from the id
\* counter on, and the rejection entries name rows in increasing order.
C17_FileOrder ==
    [][ (Imports /\ csv.columns = FourColumns) =>
          LET accepted == AcceptedRows(report'.error_details, Len(csv.rows))
              inserted == SubSeq(kakeibo', Len(kakeibo) + 1, Len(kakeibo'))
          IN  /\ Len(inserted) = Len(accepted)
              /\ \A k \in 1..Len(inserted) :
                    /\ inserted[k].id = next_id + k - 1
                    /\ inserted[k].amount.n = AmountOfText(csv.rows[accepted[k]].amount)
                    /\ inserted[k].subject = Trimmed(csv.rows[accepted[k]].subject)
                       \/ csv.rows[accepted[k]].subject = <<>>
              /\ \A a, b \in 1..Len(inserted) : a < b => inserted[a].id < inserted[b].id
              /\ StrictlyIncreasing(RejectedRows(report'.error_details)) ]_vars

\* 100 in the second row and -5 in the first: the -5 gets the smaller id
C17_Witness ==
    /\ Imported
    /\ csv.columns = FourColumns
    /\ Len(csv.rows) = 2
    /\ csv.rows[1].amount = <<"-", "5">>
    /\ csv.rows[2].amount = <<"1", "0", "0">>
    /\ report.success_count = 2
    /\ Len(kakeibo) = 3
    /\ kakeibo[2].amount.n = 0 - 5
    /\ kakeibo[3].amount.n = 100
    /\ kakeibo[2].id < kakeibo[3].id

\* the entry of the table that row i of the file became, when it was accepted
StoredRow(i) ==
    LET accepted == AcceptedRows(report.error_details, Len(csv.rows))
        before == Len(kakeibo) - Len(accepted)
    IN  kakeibo[before + Cardinality({ k \in 1..Len(accepted) : accepted[k] <= i })]
IsAccepted(i) == \A k \in 1..Len(report.error_details) : report.error_details[k].row # i
NumericAmountTexts == { <<"1", "0", "0">>, <<"-", "5">> }
Placeholder == <<"n", "a", "n">>

\* C15: every entry an import stores has a category and a subject that are
\* not empty after trimming, and a row whose category or subject cell is
\* empty or blank is not stored (neither with an empty text nor with a
\* placeholder in its place).
C15_NoEmptyCategoryOrSubject ==
    (Imported /\ csv.columns = FourColumns) =>
        /\ \A k \in 1..Len(kakeibo) :
              /\ Trimmed(kakeibo[k].category) # <<>>
              /\ Trimmed(kakeibo[k].subject) # <<>>
        /\ \A i \in 1..Len(csv.rows) :
              (Trimmed(csv.rows[i].category) = <<>> \/ Trimmed(csv.rows[i].subject) = <<>>)
              => ~IsAccepted(i)

\* C16: a row with a date that normalises and an amount that is a number is
\* accepted whatever its category is, and the entry stored for it has the
\* category and the subject of the file with the blanks at both ends
\* removed.
C16_CategoryPassedThrough ==
    (Imported /\ csv.columns = FourColumns) =>
        \A i \in 1..Len(csv.rows) :
            (csv.rows[i].date \in NormalisableDates /\ csv.rows[i].amount \in NumericAmountTexts)
            => /\ IsAccepted(i)
               /\ StoredRow(i).category = Trimmed(csv.rows[i].category)
               /\ StoredRow(i).subject = Trimmed(csv.rows[i].subject)

\* C20: validate_csv_format leaves the batch as it was read: after the
\* import every cell of the DataFrame, those of the amount column included,
\* is the cell read_csv produced.
C20_ValidationLeavesBatch ==
    Imported => df = read_csv(csv)

-----------------------------------------------------------------------------
(* Properties of the store, checked under Spec and SpecRoundTrip *)

\* calendar dates, by the rules of the Gregorian calendar
YearValue(y) == FieldValue(SubSeq(y, 1, 2)) * 100 + FieldValue(SubSeq(y, 3, 4))
IsLeapYear(y) == (y % 4 = 0 /\ y % 100 # 0) \/ y % 400 = 0
DaysInMonth(y, m) ==
    CASE m \in {1, 3, 5, 7, 8, 10, 12} -> 31
      [] m \in {4, 6, 9, 11} -> 30
      [] m = 2 -> IF IsLeapYear(y) THEN 29 ELSE 28
      [] OTHER -> 0
IsCalendarDate(s) ==
    /\ LooksCanonical(s)
    /\ YearValue(SubSeq(s, 1, 4)) >= 1
    /\ FieldValue(SubSeq(s, 6, 7)) \in 1..12
    /\ FieldValue(SubSeq(s, 9, 10)) \in
          1..DaysInMonth(YearValue(SubSeq(s, 1, 4)), FieldValue(SubSeq(s, 6, 7)))

\* C12: whatever was saved, imported, edited, archived and restored, every
\* row of table kakeibo has a date of the form YYYY-MM-DD that is a date of
\* the calendar.
C12_StoredDatesAreCalendarDates ==
    \A k \in 1..Len(kakeibo) : IsCalendarDate(kakeibo[k].date)

\* C13: whatever was saved, imported and edited, every row of table kakeibo
\* has a number as its amount; a text that is no number is never stored.
C13_StoredAmountsAreNumbers ==
    \A k \in 1..Len(kakeibo) : kakeibo[k].amount.t = "float"

Content(r) == <<r.date, r.category, r.subject, r.amount>>
ContentsOf(table) == { Content(table[k]) : k \in 1..Len(table) }

\* C14: when the whole table, with canonical dates, has been exported and
\* the file imported into an empty table, every row was accepted, none
\* rejected, and the entries are those of the table in date, category,
\* subject and amount.
C14_ExportImportRoundTrip ==
    (phase = "reimported" /\ \A k \in 1..Len(kakeibo) : LooksCanonical(kakeibo[k].date)) =>
        /\ report.ret = "True"
        /\ report.error_count = 0
        /\ report.success_count = Len(kakeibo)
        /\ Len(reimported) = Len(kakeibo)
        /\ ContentsOf(reimported) = ContentsOf(kakeibo)

\* C19: an entry keeps the id it got when it was inserted: an edit changes
\* no id, a row moved to the archive is kept there under its id, and a row
\* restored from the archive is back in table kakeibo under that id.
C19_IdNeverChanges ==
    [][ /\ (kakeibo_archive'.rows = kakeibo_archive.rows /\ Len(kakeibo') = Len(kakeibo)) =>
              \A k \in 1..Len(kakeibo) : kakeibo'[k].id = kakeibo[k].id
        /\ Len(kakeibo_archive'.rows) > Len(kakeibo_archive.rows) =>
              \A a \in (Len(kakeibo_archive.rows) + 1)..Len(kakeibo_archive'.rows) :
                  \E k \in 1..Len(kakeibo) :
                      /\ Content(kakeibo[k]) = Content(kakeibo_archive'.rows[a])
                      /\ kakeibo[k].id = kakeibo_archive'.rows[a].original_id
        /\ Len(kakeibo_archive'.rows) < Len(kakeibo_archive.rows) =>
              \A k \in (Len(kakeibo) + 1)..Len(kakeibo') :
                  \E a \in 1..Len(kakeibo_archive.rows) :
                      /\ Content(kakeibo_archive.rows[a]) = Content(kakeibo'[k])
                      /\ kakeibo_archive.rows[a].original_id = kakeibo'[k].id ]_vars

\* the entries of table kakeibo whose date begins with month m, those of a
\* category among them, and the sum of the amounts of a set of entries
BeginsWith(text, m) == Len(text) >= Len(m) /\ SubSeq(text, 1, Len(m)) = m
EntriesOfMonth(m) == { k \in 1..Len(kakeibo) : BeginsWith(kakeibo[k].date, m) }
EntriesOfCategory(m, category) ==
    { k \in EntriesOfMonth(m) : kakeibo[k].category = category }
RECURSIVE SumOfAmounts(_)
SumOfAmounts(K) ==
    IF K = {} THEN 0
    ELSE LET k == CHOOSE x \in K : TRUE IN kakeibo[k].amount.n + SumOfAmounts(K \ {k})

\* C18: for a month with entries, all with numbers as amounts, the monthly
\* summary and the monthly statistics give as income total the sum of the
\* amounts of the entries of the month with category income, as expense
\* total the sum for category expense, and as balance the difference; the
\* entries of any other category count for neither, whatever their sign.
C18_MonthlyTotals ==
      \A m \in Months :
        (/\ EntriesOfMonth(m) # {}
         /\ \A k \in EntriesOfMonth(m) : kakeibo[k].amount.t = "float")
        => LET expected ==
                 [ret |-> "totals",
                  income_total |-> SumOfAmounts(EntriesOfCategory(m, Income)),
                  expense_total |-> SumOfAmounts(EntriesOfCategory(m, Expense)),
                  balance |-> SumOfAmounts(EntriesOfCategory(m, Income))
                                - SumOfAmounts(EntriesOfCategory(m, Expense))]
           IN  /\ fetch_monthly_summary(kakeibo, m) = expected
               /\ get_monthly_statistics(kakeibo, m) = {expected}

\* January 2024 holds 100 under an unknown category and -5 as income: the
\* income total is -5, the expense total 0
C18_Witness ==
    /\ phase = "open"
    /\ Len(kakeibo) = 2
    /\ \A k \in 1..2 : BeginsWith(kakeibo[k].date, <<"2", "0", "2", "4", "-", "0", "1">>)
    /\ \E k \in 1..2 : kakeibo[k].category = <<"x", "x">> /\ kakeibo[k].amount = FloatCell(100)
    /\ \E k \in 1..2 : kakeibo[k].category = Income /\ kakeibo[k].amount = FloatCell(0 - 5)
    /\ fetch_monthly_summary(kakeibo, <<"2", "0", "2", "4", "-", "0", "1">>).income_total = 0 - 5
    /\ fetch_monthly_summary(kakeibo, <<"2", "0", "2", "4", "-", "0", "1">>).expense_total = 0

\* the texts of the form YYYY-MM and the month each denotes, counted from
\* year 0
LooksMonth(m) ==
    Len(m) = 7 /\ IsYear4(SubSeq(m, 1, 4)) /\ m[5] = "-" /\ AllDigits(SubSeq(m, 6, 7))
MonthNumber(m) == YearValue(SubSeq(m, 1, 4)) * 12 + FieldValue(SubSeq(m, 6, 7))
FirstSeven(text) == IF Len(text) <= 7 THEN text ELSE SubSeq(text, 1, 7)
MonthsPresent ==
    { FirstSeven(kakeibo[k].date) : k \in 1..Len(kakeibo) }
    \cup { FirstSeven(kakeibo_archive.rows[k].date) : k \in 1..Len(kakeibo_archive.rows) }

\* C21: in every state of the store get_available_months returns exactly the
\* month prefixes of the dates in table kakeibo and in the archive, each
\* once, the newest first, also while nothing has been archived yet.
C21_AvailableMonths ==
    LET months == get_available_months(kakeibo, kakeibo_archive) IN
    /\ { months[i] : i \in 1..Len(months) } = MonthsPresent
    /\ Len(months) = Cardinality(MonthsPresent)
    /\ \A i, j \in 1..Len(months) :
          (i < j /\ LooksMonth(months[i]) /\ LooksMonth(months[j]))
          => MonthNumber(months[i]) > MonthNumber(months[j])

\* ---------------------------------------------------------------------
\* Claims about archiving and restoring a month
\* ---------------------------------------------------------------------

\* the positions of the entries of a table whose date begins with the month
PositionsOfMonth(rows, m) == { k \in 1..Len(rows) : BeginsWith(rows[k].date, m) }
RowsOfOtherMonths(rows, m) ==
    { rows[k] : k \in (1..Len(rows)) \ PositionsOfMonth(rows, m) }

\* the rows the archive table gained in a step
GainedRows == { kakeibo_archive'.rows[k] :
                  k \in (Len(kakeibo_archive.rows) + 1)..Len(kakeibo_archive'.rows) }

\* C22: when archive_monthly_data(m) succeeds, afterwards the main table
\* holds no entry whose date begins with m, the archive table has gained one
\* row with the date, category, subject, amount and original id of each
\* entry moved, and the entries of other months are unchanged in both tables
ArchiveMoved(m) ==
    LET moved == PositionsOfMonth(kakeibo, m) IN
    /\ PositionsOfMonth(kakeibo', m) = {}
    /\ Len(kakeibo_archive'.rows) = Len(kakeibo_archive.rows) + Cardinality(moved)
    /\ Cardinality(GainedRows) = Cardinality(moved)
    /\ { <<r.original_id, Content(r)>> : r \in GainedRows }
         = { <<kakeibo[k].id, Content(kakeibo[k])>> : k \in moved }
    /\ SubSeq(kakeibo_archive'.rows, 1, Len(kakeibo_archive.rows)) = kakeibo_archive.rows
    /\ { kakeibo'[k] : k \in 1..Len(kakeibo') } = RowsOfOtherMonths(kakeibo, m)
    /\ Len(kakeibo') = Len(kakeibo) - Cardinality(moved)
C22_ArchiveMovesMonth ==
    [][ \A m \in Months : ArchiveCallOf(m, "none") => ArchiveMoved(m) ]_vars
C22_Witness ==
    /\ returned = "True"
    /\ \E a \in 1..Len(kakeibo_archive.rows) :
          /\ kakeibo_archive.rows[a].original_id = 1
          /\ BeginsWith(kakeibo_archive.rows[a].date, <<"2", "0", "2", "4", "-", "1", "2">>)
    /\ Len(kakeibo) = 1
    /\ BeginsWith(kakeibo[1].date, <<"2", "0", "2", "4", "-", "0", "1">>)

\* how many entries of the two tables together have the content c
CountIn(rows, c) == Cardinality({ k \in 1..Len(rows) : Content(rows[k]) = c })
Copies(table, archived, c) == CountIn(table, c) + CountIn(archived, c)
SameEntries ==
    \A c \in ContentsOf(kakeibo) \cup ContentsOf(kakeibo_archive.rows)
             \cup ContentsOf(kakeibo') \cup ContentsOf(kakeibo_archive'.rows) :
        Copies(kakeibo, kakeibo_archive.rows, c)
          = Copies(kakeibo', kakeibo_archive'.rows, c)

\* C23: no call of archive_monthly_data or restore_monthly_data, successful
\* or failed, changes the multiset of (date, category, subject, amount) over
\* the main and the archive table together, and a restore_monthly_data(m)
\* that succeeds leaves the archive table without a row of month m
C23_NothingLostOrDuplicated ==
    [][ /\ (ArchiveCall \/ RestoreCall) => SameEntries
        /\ \A m \in Months :
             (RestoreCallOf(m, "none") /\ kakeibo_archive.exists)
             => PositionsOfMonth(kakeibo_archive'.rows, m) = {} ]_vars
C23_Witness ==
    /\ returned = "True"
    /\ kakeibo_archive.exists
    /\ kakeibo_archive.rows = <<>>
    /\ kakeibo_archive.next_id = 2
    /\ next_id = 3
    /\ Len(kakeibo) = 1
    /\ kakeibo[1].id = 2

RowsUnchanged ==
    /\ kakeibo' = kakeibo
    /\ kakeibo_archive'.rows = kakeibo_archive.rows

\* an entry that is in the main table is not in the archive table as well
InOneTableOnly ==
    \A k \in 1..Len(kakeibo), a \in 1..Len(kakeibo_archive.rows) :
        kakeibo_archive.rows[a].original_id # kakeibo[k].id

\* C24: a call of archive_monthly_data(m) or restore_monthly_data(m) moves
\* all entries of month m or none: when it returns False (as
\* restore_monthly_data does while there is no archive table) the rows of
\* both tables are the same as before, when it returns True the table the
\* entries are taken from holds none of month m and the other table has
\* grown by their number, and in no state an entry is in both tables
C24_AllOrNothing ==
    /\ []InOneTableOnly
    /\ [][ /\ \A m \in Months, f \in SqliteFaults :
                ArchiveCallOf(m, f)
                => \/ returned' = "False" /\ RowsUnchanged
                   \/ /\ returned' = "True"
                      /\ PositionsOfMonth(kakeibo', m) = {}
                      /\ Len(kakeibo_archive'.rows) =
                           Len(kakeibo_archive.rows)
                             + Cardinality(PositionsOfMonth(kakeibo, m))
           /\ \A m \in Months, f \in SqliteFaults :
                RestoreCallOf(m, f)
                => \/ returned' = "False" /\ RowsUnchanged
                   \/ /\ returned' = "True"
                      /\ PositionsOfMonth(kakeibo_archive'.rows, m) = {}
                      /\ Len(kakeibo') =
                           Len(kakeibo)
                             + Cardinality(PositionsOfMonth(kakeibo_archive.rows, m))
       ]_vars
C24_Witness ==
    /\ returned = "False"
    /\ ~kakeibo_archive.exists
    /\ Len(kakeibo) = 1
    /\ BeginsWith(kakeibo[1].date, <<"2", "0", "2", "4", "-", "1", "2">>)

\* the months the main table holds entries of, and those of them that are
\* older than the k newest
MainMonths == { FirstSeven(kakeibo[k].date) : k \in 1..Len(kakeibo) }
OlderMonths(k) ==
    { m \in MainMonths :
        Cardinality({ x \in MainMonths : MonthNumber(x) > MonthNumber(m) }) >= k }

\* C25: cleanup_old_data(k) keeps the k most recent months of the main table
\* and archives the older ones: when the main table holds at most k distinct
\* months no entry is moved; when it holds more, the entries of each older
\* month are moved once its backup file was written, no entry of the k
\* newest months and no entry of a month without a backup file is moved
CleanedUp(k, unwritable, fault) ==
    IF Cardinality(MainMonths) <= k
    THEN RowsUnchanged
    ELSE /\ \A m \in OlderMonths(k) :
              (m \notin unwritable /\ fault = "none")
              => PositionsOfMonth(kakeibo', m) = {} /\ m \in backups'
         /\ \A m \in MainMonths :
              Cardinality(PositionsOfMonth(kakeibo', m))
                  # Cardinality(PositionsOfMonth(kakeibo, m))
              => m \in OlderMonths(k) /\ m \in backups' /\ m \notin unwritable
         /\ SameEntries
C25_CleanupKeepsNewestMonths ==
    [][ \A k \in KeepMonths, unwritable \in SUBSET MainMonths, fault \in SqliteFaults :
          (CleanupCallOf(k, unwritable, fault) /\ \A m \in MainMonths : LooksMonth(m))
          => CleanedUp(k, unwritable, fault) ]_vars

\* ---------------------------------------------------------------------
\* Claims about editing a cell and saving the form
\* ---------------------------------------------------------------------

\* C26: when the amount cell of a row of the table is edited to a text that
\* is not a number, afterwards every stored amount is what it was before the
\* edit and the cell shows what it showed before
C26_BadAmountEditReverted ==
    [][ \A row \in 1..Len(table_widget), new_value \in EditTexts :
          (UpdateRecordOf(row, 5, new_value) /\ new_value \notin NumericAmountTexts)
          => /\ Len(kakeibo') = Len(kakeibo)
             /\ \A k \in 1..Len(kakeibo) : kakeibo'[k].amount = kakeibo[k].amount
             /\ table_widget'[row][5] = table_widget[row][5] ]_vars

\* the entry the form stands for, under the id of the counter
EntryOfForm(form, date) ==
    [id |-> next_id, date |-> date, category |-> form.category,
     subject |-> form.subject, amount |-> FloatCell(AmountOfText(form.amount_str))]

\* C27: save_record inserts exactly one row, with the normalized date, when
\* the typed date normalizes and the typed amount is a number; when the date
\* does not normalize or the amount is no number it inserts none and table
\* kakeibo is unchanged
C27_SaveInsertsOneRowOrNone ==
    \A form \in SaveForms :
      \A po \in parser_outcomes_for(StrCell(form.date)) :
        \A r \in {save_record(form, kakeibo, next_id, po)} :
          \A normalized \in {convert_date_format(form.date, po).ret} :
            IF normalized # NoneVal /\ form.amount_str \in NumericAmountTexts
            THEN /\ r.ok
                 /\ LooksCanonical(normalized)
                 /\ r.table = Append(kakeibo, EntryOfForm(form, normalized))
                 /\ r.next_id = next_id + 1
            ELSE /\ ~r.ok
                 /\ r.table = kakeibo
                 /\ r.next_id = next_id
C27_Witness ==
    /\ Len(kakeibo) = 2
    /\ kakeibo[2].id = 2
    /\ kakeibo[2].date = <<"2", "0", "2", "4", "-", "1", "2", "-", "3", "1">>
    /\ kakeibo[2].subject = <<Blank, "x", Blank>>
    /\ kakeibo[2].amount = FloatCell(0 - 5)
    /\ table_widget = load_data(kakeibo)

\* ---------------------------------------------------------------------
\* The normaliser applied to its own results, checked under SpecDate
\* ---------------------------------------------------------------------

\* the early return for a canonical text and the four pattern branches
PatternBranches == {"canonical", "reiwa_long", "reiwa_short", "kanji", "slash"}

\* C28: a text that convert_date_format returns through the canonical check
\* or one of its pattern branches is four digits, hyphen, two digits, hyphen,
\* two digits, and convert_date_format returns that text for it
C28_IdempotentOnResults ==
    (Converted /\ conv.ret # NoneVal /\ conv.via \in PatternBranches)
    => /\ LooksCanonical(conv.ret)
       /\ phase = "reconverted" => (conv2.ret = conv.ret /\ conv2.via = "canonical")
C28_Witness ==
    /\ phase = "reconverted"
    /\ date_str = ReiwaShortText(<<"9", "9">>, <<"0">>, <<"9", "9">>)
    /\ conv.via = "reiwa_short"
    /\ conv.ret = <<"2", "1", "1", "7", "-", "0", "0", "-", "9", "9">>
    /\ conv2.ret = conv.ret

====
